---- MODULE Spec2Model ----
(***************************************************************************)
(* Model of the ecommerce-dashboard backend.                               *)
(*                                                                         *)
(*   - src/routes/*.js        the Express routers (dashboard, reports,     *)
(*                            products, upload, auth profile)              *)
(*   - src/server.js          the plain http server                        *)
(*   - src/ecommerce-dashboard/server.js   the Express server variants     *)
(*                                                                         *)
(* Text is a sequence of one-character strings, numbers are fixed-point    *)
(* integers (hundredths), the managed store is a set of rows per table.    *)
(* Every handler is one action; the response it sends is left in `resp`.   *)
(***************************************************************************)
EXTENDS Integers, Sequences, FiniteSets, TLC

VARIABLES
    campaign_reports,   \* table campaign_reports of the routes deployment
    upload_history,     \* table upload_history
    products,           \* table products
    nInserts,           \* number of inserts (upload batches, products) the store accepted
    resp,               \* the response sent by the latest request (routes, http server)
    httpSupabase,       \* src/server.js: whether the client was created at start-up
    srvReports,         \* table campaign_reports of the Express server variants
    srvSettings,        \* table product_settings of the Express server variants
    disk,               \* staged upload files of the Express server variants
    nSrvUploads,        \* number of files multer staged so far
    srvResp,            \* the response sent by the latest request (Express server)
    user_roles,         \* table user_roles, read by api/dashboard.js
    pending             \* the upload request in progress, followed step by step

vars == <<campaign_reports, upload_history, products, nInserts, resp,
          httpSupabase, srvReports, srvSettings, disk, nSrvUploads, srvResp,
          user_roles, pending>>

routesVars == <<campaign_reports, upload_history, products, nInserts, resp>>
srvVars == <<srvReports, srvSettings, disk, nSrvUploads, srvResp, user_roles, pending>>

----------------------------------------------------------------------------
(* Bounds of the model *)

\* inserts (upload batches and product rows) the store accepts in one behaviour
MaxInserts == 2
\* files the Express server stages in one behaviour
MaxSrvUploads == 2
\* uploads in the history that the paging of GET /reports is checked over
MaxHistory == 4

\* upload requests followed step by step in one behaviour
MaxRequests == 2
\* characters of a spend cell handed to parseNumber
MaxCellLen == 5

----------------------------------------------------------------------------
(* Text and numbers *)

Range(s) == {s[i] : i \in 1..Len(s)}

Digits == {"0", "1", "2", "3", "4", "5", "6", "7", "8", "9"}

DigitVal(c) ==
    CASE c = "0" -> 0 [] c = "1" -> 1 [] c = "2" -> 2 [] c = "3" -> 3 [] c = "4" -> 4
      [] c = "5" -> 5 [] c = "6" -> 6 [] c = "7" -> 7 [] c = "8" -> 8 [] c = "9" -> 9

\* numbers are held in hundredths: 12.50 is 1250
Scale == 10 * 10

\* a parsed number: nan is TRUE when the text holds no number
NaN == [nan |-> TRUE, val |-> 0]
Num(v) == [nan |-> FALSE, val |-> v]

\* length of the longest prefix of s made of digits
RECURSIVE LeadingDigits(_)
LeadingDigits(s) ==
    IF s = <<>> \/ s[1] \notin Digits THEN 0 ELSE 1 + LeadingDigits(Tail(s))

\* value of a run of digits read as an integer
RECURSIVE IntVal(_)
IntVal(s) ==
    IF s = <<>> THEN 0 ELSE IntVal(SubSeq(s, 1, Len(s) - 1)) * 10 + DigitVal(s[Len(s)])

\* value, in hundredths, of a run of digits read after the decimal point
FracVal(s) ==
    (IF Len(s) >= 1 THEN DigitVal(s[1]) * 10 ELSE 0)
  + (IF Len(s) >= 2 THEN DigitVal(s[2]) ELSE 0)

\* String.prototype.endsWith
EndsWith(s, suffix) ==
    /\ Len(s) >= Len(suffix)
    /\ SubSeq(s, Len(s) - Len(suffix) + 1, Len(s)) = suffix

\* text without its leading blanks
RECURSIVE TrimStart(_)
TrimStart(s) == IF s # <<>> /\ s[1] = " " THEN TrimStart(Tail(s)) ELSE s

\* parseFloat: leading blanks are skipped, then the longest prefix that is a
\* decimal literal (sign, digits, point, digits) is read; NaN when that prefix
\* holds no digit. Exponents and "Infinity" are not modelled: the texts of the
\* model hold neither
parseFloat(text) ==
    LET s == TrimStart(text)
        signed == s # <<>> /\ s[1] \in {"-", "+"}
        neg == s # <<>> /\ s[1] = "-"
        body == IF signed THEN Tail(s) ELSE s
        nInt == LeadingDigits(body)
        rest == SubSeq(body, nInt + 1, Len(body))
        hasDot == rest # <<>> /\ rest[1] = "."
        nFrac == IF hasDot THEN LeadingDigits(Tail(rest)) ELSE 0
        mag == IntVal(SubSeq(body, 1, nInt)) * Scale
               + (IF hasDot THEN FracVal(SubSeq(rest, 2, nFrac + 1)) ELSE 0)
    IN  IF nInt = 0 /\ nFrac = 0 THEN NaN
        ELSE IF neg THEN Num(0 - mag) ELSE Num(mag)

\* the cell keeps only digits, "." and "-"
Cleaned(value) == SelectSeq(value, LAMBDA c : c \in Digits \cup {".", "-"})

parseNumber(value) ==
    IF value = <<>> THEN 0
    ELSE LET parsed == parseFloat(Cleaned(value))
         IN  IF parsed.nan THEN 0 ELSE parsed.val

\* the first alias that the row holds with a non-empty cell, else the empty text
RECURSIVE getColumnValue(_, _)
getColumnValue(row, possibleNames) ==
    IF possibleNames = <<>> THEN <<>>
    ELSE IF Head(possibleNames) \in DOMAIN row /\ row[Head(possibleNames)] # <<>>
         THEN row[Head(possibleNames)]
         ELSE getColumnValue(row, Tail(possibleNames))

CampaignAliases == <<"Campaign name", "Campaign Name", "campaign_name", "Campaign">>
ProductAliases == <<"Product name", "Product Name", "product_name", "Product">>
SpendAliases == <<"Amount spent (CAD)", "Amount Spent", "Spend", "Cost">>
RevenueAliases ==
    <<"Purchase ROAS (return on ad spend)", "Revenue", "Purchase Value", "Conversion Value">>
ConversionAliases == <<"Purchases", "Conversions", "Orders", "Results">>
ClickAliases == <<"Link clicks", "Clicks", "Link Clicks">>
ImpressionAliases == <<"Impressions", "Reach">>

\* one raw CSV row to one campaign_reports record
ProcessRow(row, userId, fileName, platform) ==
    [ user_id       |-> userId,
      file_name     |-> fileName,
      platform      |-> platform,
      campaign_name |-> getColumnValue(row, CampaignAliases),
      product_name  |-> getColumnValue(row, ProductAliases),
      amount_spent  |-> parseNumber(getColumnValue(row, SpendAliases)),
      revenue       |-> parseNumber(getColumnValue(row, RevenueAliases)),
      conversions   |-> parseNumber(getColumnValue(row, ConversionAliases)),
      clicks        |-> parseNumber(getColumnValue(row, ClickAliases)),
      impressions   |-> parseNumber(getColumnValue(row, ImpressionAliases)),
      raw_data      |-> row ]

\* csv-parser: the first line names the columns, every further line is one row
IndexOf(seq, x) == CHOOSE i \in 1..Len(seq) : seq[i] = x

CsvParse(content) ==
    [ i \in 1..Len(content.lines) |->
        [ h \in Range(content.header) |-> content.lines[i][IndexOf(content.header, h)] ] ]

----------------------------------------------------------------------------
(* The identity service and the requests' inputs *)

Users == {"u1", "u2"}

\* tokens the identity service knows, and the user each belongs to
Sessions == [t \in {"t1", "t2"} |-> IF t = "t1" THEN "u1" ELSE "u2"]

\* the Authorization header: absent, or the scheme followed by the token
NoHeader == <<>>
AuthHeaders == {NoHeader, <<"Bearer ", "bad">>, <<"Bearer ", "t1">>, <<"Bearer ", "t2">>}

\* req.headers.authorization?.replace('Bearer ', ''): "" stands for undefined
TokenOf(auth) == IF auth = NoHeader THEN "" ELSE auth[2]

\* messages of the collaborators
AuthMsg == "invalid JWT"
IdentityDownMsg == "fetch failed"
StoreMsg(table) == "store fault: " \o table
NoMsg == ""

\* token check and supabase.auth.getUser, as every router repeats them:
\* idDown is the identity service failing to answer (getUser throws)
Authenticate(auth, idDown) ==
    LET token == TokenOf(auth)
    IN  IF token = ""
        THEN [ok |-> FALSE, status |-> 401, error |-> "No token provided", user |-> ""]
        ELSE IF idDown
        THEN [ok |-> FALSE, status |-> 500, error |-> IdentityDownMsg, user |-> ""]
        ELSE IF token \notin DOMAIN Sessions
        THEN [ok |-> FALSE, status |-> 401, error |-> AuthMsg, user |-> ""]
        ELSE [ok |-> TRUE, status |-> 0, error |-> NoMsg, user |-> Sessions[token]]

\* one call of the store client made while a request is handled
Call(table, op, ok) == [table |-> table, op |-> op, ok |-> ok]

NoKpis == [totalSpend |-> 0, totalRevenue |-> 0, roas |-> 0, totalOrders |-> 0]
NoPlatformData == [p \in {} |-> 0]
NoPagination == [page |-> 0, limit |-> 0, total |-> 0, totalPages |-> 0]
NoStats == [totalUploads |-> 0, successfulUploads |-> 0, totalRowsProcessed |-> 0]

\* the response of a request; what a handler does not send keeps these values
NoResp ==
    [ route |-> "none", auth |-> NoHeader, caller |-> "", status |-> 0,
      error |-> NoMsg, message |-> NoMsg, calls |-> <<>>,
      campaigns |-> {}, uploads |-> <<>>, products |-> <<>>,
      rowsProcessed |-> 0 - 1, hasFile |-> FALSE, platform |-> "", parsed |-> FALSE,
      csvRows |-> 0 - 1, id |-> 0,
      kpis |-> NoKpis, platformData |-> NoPlatformData, pagination |-> NoPagination,
      stats |-> NoStats ]

Reply(route, auth, fields) == fields @@ [NoResp EXCEPT !.route = route, !.auth = auth]

Failure(route, auth, status, error, calls) ==
    Reply(route, auth, [status |-> status, error |-> error, calls |-> calls])

----------------------------------------------------------------------------
(* POST /upload of src/routes *)

T_csv == <<".", "c", "s", "v">>
FileSizeLimit == 10 * 1024 * 1024

NoFile ==
    [ present |-> FALSE, originalname |-> <<>>, mimetype |-> "", size |-> 0,
      content |-> [header |-> <<>>, lines |-> <<>>] ]

\* a Facebook export: one row
FacebookCsv ==
    [ present |-> TRUE, originalname |-> <<"f">> \o T_csv, mimetype |-> "text/csv",
      size |-> 64,
      content |-> [ header |-> <<"Campaign name", "Amount spent (CAD)", "Purchases">>,
                    lines |-> << << <<"P", "X", " ", "-", " ", "S">>,
                                    <<"$", "1", "2", ".", "5", "0">>,
                                    <<"3">> >> >> ] ]

\* an export under the generic column names: two rows, sent without the CSV media type
GenericCsv ==
    [ present |-> TRUE, originalname |-> <<"g">> \o T_csv,
      mimetype |-> "application/octet-stream", size |-> 96,
      content |-> [ header |-> <<"Campaign", "Product", "Spend", "Revenue", "Conversions">>,
                    lines |-> << << <<"c", "1">>, <<"P", "X">>, <<"1", "0">>,
                                    <<"2", "5">>, <<"2">> >>,
                                 << <<"c", "2">>, <<"p", "y">>, <<"0">>,
                                    <<"n", "/", "a">>, <<>> >> >> ] ]

\* a header line and no data row
EmptyCsv ==
    [ present |-> TRUE, originalname |-> <<"e">> \o T_csv, mimetype |-> "text/csv",
      size |-> 16,
      content |-> [header |-> <<"Campaign name", "Purchases">>, lines |-> <<>>] ]

\* not a CSV by media type nor by name
TextFile ==
    [ present |-> TRUE, originalname |-> <<"n", ".", "t", "x", "t">>,
      mimetype |-> "text/plain", size |-> 16,
      content |-> [header |-> <<"notes">>, lines |-> <<>>] ]

\* a CSV above the size limit
BigCsv == [FacebookCsv EXCEPT !.size = FileSizeLimit + 1]

InputFiles == {NoFile, FacebookCsv, GenericCsv, EmptyCsv, TextFile, BigCsv}

\* the platform form field: "" stands for a missing field
InputPlatforms == {"facebook", "google", "snapchat", ""}

\* multer's fileFilter and size limit: the file is handed to the handler
MulterAccepts(file) ==
    /\ file.mimetype = "text/csv" \/ EndsWith(file.originalname, T_csv)
    /\ file.size <= FileSizeLimit

MulterError(file) ==
    IF file.mimetype = "text/csv" \/ EndsWith(file.originalname, T_csv)
    THEN "File too large"
    ELSE "Only CSV files are allowed"

\* ValidPlatform without the list of platforms
ValidPlatformAnyName(platform) == platform # ""

ValidPlatform(platform) ==
    platform # "" /\ platform \in {"facebook", "tiktok", "google"}

\* EmptyCsvData without the length check
EmptyCsvDataNever(csvData) == FALSE

EmptyCsvData(csvData) == Len(csvData) = 0

\* csvData.map(row => ...): the batch handed to the store
ProcessedData(csvData, userId, fileName, platform) ==
    [i \in 1..Len(csvData) |-> ProcessRow(csvData[i], userId, fileName, platform)]

\* the rows the store creates for a batch; batch and the position in it make the id
InsertedRows(processedData, batch) ==
    {processedData[i] @@ [id |-> <<batch, i>>] : i \in 1..Len(processedData)}

\* HistoryRow counting the header line as a row
HistoryRowCountsHeader(userId, fileName, platform, processedData, batch) ==
    [ id |-> batch, user_id |-> userId, file_name |-> fileName, platform |-> platform,
      rows_processed |-> Len(processedData) + 1, status |-> "completed",
      upload_date |-> batch ]

HistoryRow(userId, fileName, platform, processedData, batch) ==
    [ id |-> batch, user_id |-> userId, file_name |-> fileName, platform |-> platform,
      rows_processed |-> Len(processedData), status |-> "completed",
      upload_date |-> batch ]

\* InsertFaultReply passing the message of the store on
InsertFaultReplyStoreMessage(base) ==
    [status |-> 500, error |-> StoreMsg("campaign_reports")] @@ base

InsertFaultReply(base) ==
    [status |-> 500, error |-> "Failed to save data to database"] @@ base

\* AfterHistoryFault answering with the fault
AfterHistoryFaultSurfaced(reply, historyError) ==
    IF historyError # NoMsg
    THEN [status |-> 500, error |-> historyError, message |-> NoMsg,
          rowsProcessed |-> 0 - 1, campaigns |-> {}] @@ reply
    ELSE reply

\* a fault of the history insert is written to the log and changes nothing
AfterHistoryFault(reply, historyError) == reply

UploadSuccessReply(base, processedData, insertedData) ==
    [ status |-> 200, message |-> "File uploaded successfully",
      rowsProcessed |-> Len(processedData), campaigns |-> insertedData ] @@ base

\* the upload handler for one request; f names the collaborators' faults.
\* The result is the reply, the rows added to campaign_reports and to upload_history.
UploadOutcome(auth, file, platform, f, batch) ==
    LET route == "POST /upload"
        a == Authenticate(auth, f.idDown)
        none == [rows |-> {}, history |-> {}]
        base == Reply(route, auth, [caller |-> a.user, hasFile |-> file.present,
                                    platform |-> platform])
        csvData == CsvParse(file.content)
        processedData == ProcessedData(csvData, a.user, file.originalname, platform)
        insertCall == Call("campaign_reports", "insert", ~f.insert)
        historyCall == Call("upload_history", "insert", ~f.history)
        insertedData == InsertedRows(processedData, batch)
    IN  IF file.present /\ ~MulterAccepts(file)
        THEN [reply |-> Failure(route, auth, 500, MulterError(file), <<>>)] @@ none
        ELSE IF ~a.ok
        THEN [reply |-> Failure(route, auth, a.status, a.error, <<>>)] @@ none
        ELSE IF ~file.present
        THEN [reply |-> [status |-> 400, error |-> "No file uploaded"] @@ base] @@ none
        ELSE IF ~ValidPlatform(platform)
        THEN [reply |-> [status |-> 400, error |-> "Invalid platform specified"] @@ base]
             @@ none
        ELSE IF f.parse
        THEN [reply |-> [status |-> 500, error |-> "stream error", parsed |-> TRUE] @@ base]
             @@ none
        ELSE IF EmptyCsvData(csvData)
        THEN [reply |-> [status |-> 400, error |-> "CSV file is empty or invalid",
                         parsed |-> TRUE, csvRows |-> 0] @@ base] @@ none
        ELSE IF f.insert
        THEN [reply |-> InsertFaultReply([parsed |-> TRUE, csvRows |-> Len(csvData),
                                          calls |-> <<insertCall>>] @@ base)]
             @@ none
        ELSE [ reply |-> AfterHistoryFault(
                            UploadSuccessReply(
                                [parsed |-> TRUE, csvRows |-> Len(csvData),
                                 calls |-> <<insertCall, historyCall>>] @@ base,
                                processedData, insertedData),
                            IF f.history THEN StoreMsg("upload_history") ELSE NoMsg),
               rows |-> insertedData,
               history |-> IF f.history THEN {}
                           ELSE {HistoryRow(a.user, file.originalname, platform,
                                            processedData, batch)} ]

\* the upload requests of the model: well-formed exports of both callers, and
\* one request for each way a request can be wrong
UploadRequests ==
    { [auth |-> <<"Bearer ", "t1">>, file |-> FacebookCsv, platform |-> "facebook"],
      [auth |-> <<"Bearer ", "t2">>, file |-> GenericCsv, platform |-> "google"] }
    \cup {[auth |-> <<"Bearer ", "t1">>, file |-> fl, platform |-> "facebook"] :
        fl \in {NoFile, EmptyCsv, TextFile, BigCsv}}
    \cup {[auth |-> <<"Bearer ", "t1">>, file |-> FacebookCsv, platform |-> pl] :
        pl \in {"snapchat", "Facebook", ""}}
    \cup {[auth |-> a, file |-> FacebookCsv, platform |-> "facebook"] :
        a \in {NoHeader, <<"Bearer ", "bad">>}}
    \cup {[auth |-> NoHeader, file |-> TextFile, platform |-> "facebook"],
          [auth |-> <<"Bearer ", "bad">>, file |-> NoFile, platform |-> ""]}

NoFaults == [idDown |-> FALSE, parse |-> FALSE, insert |-> FALSE, history |-> FALSE]

\* a collaborator can fail only at a call the request reaches, and every
\* fault but the history one ends the request: one fault per request
UploadFaults(rq) ==
    LET handled == ~(rq.file.present /\ ~MulterAccepts(rq.file))
        authed == handled /\ TokenOf(rq.auth) \in DOMAIN Sessions
        read == authed /\ rq.file.present /\ ValidPlatform(rq.platform)
        stored == read /\ ~EmptyCsvData(CsvParse(rq.file.content))
    IN  {NoFaults}
        \cup (IF handled /\ TokenOf(rq.auth) = "t1" /\ stored
              THEN {[NoFaults EXCEPT !.idDown = TRUE]} ELSE {})
        \cup (IF read THEN {[NoFaults EXCEPT !.parse = TRUE]} ELSE {})
        \cup (IF stored THEN {[NoFaults EXCEPT !.insert = TRUE],
                              [NoFaults EXCEPT !.history = TRUE]} ELSE {})

Upload ==
    \E rq \in UploadRequests :
      \E f \in UploadFaults(rq) :
        LET out == UploadOutcome(rq.auth, rq.file, rq.platform, f, nInserts + 1)
        IN  /\ out.rows # {} => nInserts < MaxInserts
            /\ resp' = out.reply
            /\ campaign_reports' = campaign_reports \cup out.rows
            /\ upload_history' = upload_history \cup out.history
            /\ nInserts' = IF out.rows # {} THEN nInserts + 1 ELSE nInserts
            /\ UNCHANGED <<products, httpSupabase>>
            /\ UNCHANGED srvVars

----------------------------------------------------------------------------
(* Queries of the store and the Aggregator *)

\* OwnedBy without the owner filter
OwnedByAnyone(table, userId) == table

\* .eq('user_id', user.id)
OwnedBy(table, userId) == {r \in table : r.user_id = userId}

\* sum of one numeric column over a set of rows
RECURSIVE SumField(_, _)
SumField(rows, field) ==
    IF rows = {} THEN 0
    ELSE LET r == CHOOSE x \in rows : TRUE
         IN  r[field] + SumField(rows \ {r}, field)

\* n / d rounded to the nearest integer, halves away from zero (d > 0)
RoundDiv(n, d) ==
    IF n >= 0 THEN (2 * n + d) \div (2 * d) ELSE 0 - ((2 * (0 - n) + d) \div (2 * d))

\* Roas dividing whenever the spend is not positive as well: x / 0 is no number
RoasUnguarded(revenue, spend) ==
    IF spend > 0 THEN RoundDiv(revenue * Scale, spend) ELSE 0 - 1

\* revenue / spend in hundredths, 0 when nothing was spent
Roas(revenue, spend) == IF spend > 0 THEN RoundDiv(revenue * Scale, spend) ELSE 0

Kpis(campaigns) ==
    [ totalSpend   |-> SumField(campaigns, "amount_spent"),
      totalRevenue |-> SumField(campaigns, "revenue"),
      roas         |-> Roas(SumField(campaigns, "revenue"),
                            SumField(campaigns, "amount_spent")),
      totalOrders  |-> SumField(campaigns, "conversions") ]

\* campaign.platform || 'unknown'
PlatformKey(campaign) == IF campaign.platform = "" THEN "unknown" ELSE campaign.platform

PlatformData(campaigns) ==
    [ p \in {PlatformKey(c) : c \in campaigns} |->
        LET of == {c \in campaigns : PlatformKey(c) = p}
        IN  [ spend       |-> SumField(of, "amount_spent"),
              revenue     |-> SumField(of, "revenue"),
              conversions |-> SumField(of, "conversions") ] ]

\* .order('upload_date', { ascending: false })
RECURSIVE OrderByDateDesc(_)
OrderByDateDesc(rows) ==
    IF rows = {} THEN <<>>
    ELSE LET latest == CHOOSE x \in rows : \A y \in rows : y.upload_date <= x.upload_date
         IN  <<latest>> \o OrderByDateDesc(rows \ {latest})

\* .range(from, to) on an ordered result: positions are counted from 0
RangeOf(seq, from, to) ==
    SubSeq(seq, from + 1, IF to + 1 < Len(seq) THEN to + 1 ELSE Len(seq))

\* .limit(n)
Limit(seq, n) == RangeOf(seq, 0, n - 1)

RecentLimit == 5

RecentUploads(history, userId) ==
    Limit(OrderByDateDesc(OwnedBy(history, userId)), RecentLimit)

----------------------------------------------------------------------------
(* GET /dashboard of src/routes *)

\* f.campaigns, f.history: the store reports an error for that read
DashboardOutcome(auth, f) ==
    LET route == "GET /dashboard"
        a == Authenticate(auth, f.idDown)
        campaigns == OwnedBy(campaign_reports, a.user)
        campaignCall == Call("campaign_reports", "select", ~f.campaigns)
        historyCall == Call("upload_history", "select", ~f.history)
        recentUploads == IF f.history THEN <<>> ELSE RecentUploads(upload_history, a.user)
    IN  IF ~a.ok THEN Failure(route, auth, a.status, a.error, <<>>)
        ELSE IF f.campaigns
        THEN Reply(route, auth, [caller |-> a.user, status |-> 500,
                                 error |-> StoreMsg("campaign_reports"),
                                 calls |-> <<campaignCall>>])
        ELSE Reply(route, auth, [caller |-> a.user, status |-> 200,
                                 calls |-> <<campaignCall, historyCall>>,
                                 kpis |-> Kpis(campaigns),
                                 platformData |-> PlatformData(campaigns),
                                 campaigns |-> campaigns,
                                 uploads |-> recentUploads])

NoReadFaults ==
    [ idDown |-> FALSE, campaigns |-> FALSE, history |-> FALSE, stats |-> FALSE,
      products |-> FALSE ]

\* the request reaches the code after the token check
Authed(auth) == TokenOf(auth) \in DOMAIN Sessions

\* the faults a request can meet: one per request, and a store fault only at
\* a call the request reaches; the identity service is down for one caller
ReadFaults(auth, tables) ==
    {NoReadFaults}
    \cup (IF TokenOf(auth) = "t1" THEN {[NoReadFaults EXCEPT !.idDown = TRUE]} ELSE {})
    \cup (IF Authed(auth) THEN {[NoReadFaults EXCEPT ![t] = TRUE] : t \in tables} ELSE {})

\* the parameters tried for a request: all of them behind the token check,
\* one of them for a request that the token check turns away
ParamsFor(auth, params) ==
    IF Authed(auth) THEN params ELSE {CHOOSE x \in params : TRUE}

GetDashboard ==
    \E auth \in AuthHeaders :
      \E f \in ReadFaults(auth, {"campaigns", "history"}) :
        /\ resp' = DashboardOutcome(auth, f)
        /\ UNCHANGED <<campaign_reports, upload_history, products, nInserts,
                       httpSupabase>>
        /\ UNCHANGED srvVars

----------------------------------------------------------------------------
(* GET /auth/profile of src/routes *)

ProfileOutcome(auth, idDown) ==
    LET route == "GET /auth/profile"
        a == Authenticate(auth, idDown)
    IN  IF ~a.ok THEN Failure(route, auth, a.status, a.error, <<>>)
        ELSE Reply(route, auth, [caller |-> a.user, status |-> 200])

GetProfile ==
    \E auth \in AuthHeaders :
      \E f \in ReadFaults(auth, {}) :
        /\ resp' = ProfileOutcome(auth, f.idDown)
        /\ UNCHANGED <<campaign_reports, upload_history, products, nInserts,
                       httpSupabase>>
        /\ UNCHANGED srvVars

----------------------------------------------------------------------------
(* GET /reports and DELETE /reports/:id of src/routes *)

UpperCase == <<"A", "B", "C", "D", "E", "F", "G", "H", "I", "J", "K", "L", "M",
               "N", "O", "P", "Q", "R", "S", "T", "U", "V", "W", "X", "Y", "Z">>
LowerCase == <<"a", "b", "c", "d", "e", "f", "g", "h", "i", "j", "k", "l", "m",
               "n", "o", "p", "q", "r", "s", "t", "u", "v", "w", "x", "y", "z">>

\* String.prototype.toLowerCase
ToLowerCase(s) ==
    [i \in 1..Len(s) |->
        IF s[i] \in Range(UpperCase) THEN LowerCase[IndexOf(UpperCase, s[i])] ELSE s[i]]

\* String.prototype.includes
Includes(s, part) ==
    \E i \in 0..(Len(s) - Len(part)) : SubSeq(s, i + 1, i + Len(part)) = part

\* .ilike(column, `%${search}%`)
ILike(s, search) == Includes(ToLowerCase(s), ToLowerCase(search))

\* number of decimal digits of a natural number
RECURSIVE DigitCount(_)
DigitCount(n) == IF n < 10 THEN 1 ELSE 1 + DigitCount(n \div 10)

RECURSIVE Pow10(_)
Pow10(k) == IF k = 0 THEN 1 ELSE 10 * Pow10(k - 1)

\* a query parameter that holds a number: given is FALSE when the request
\* leaves it out and the handler's default, a number, is used; a given
\* parameter is the text of the number
DefaultPage == [given |-> FALSE, n |-> 1]
DefaultLimit == [given |-> FALSE, n |-> 20]
Given(n) == [given |-> TRUE, n |-> n]

\* offset + limit: a sum of two numbers, but with a limit taken from the query
\* string the number offset is joined to the text of the limit
OffsetPlusLimit(offset, limit) ==
    IF limit.given THEN offset * Pow10(DigitCount(limit.n)) + limit.n
    ELSE offset + limit.n

CeilDiv(n, d) == (n + d - 1) \div d

NoQuery ==
    [ platform |-> "", page |-> DefaultPage, limit |-> DefaultLimit,
      start_date |-> 0, end_date |-> 0, search |-> <<>> ]

\* the filters of the query; 0 and the empty text stand for a parameter left out
FilterUploads(rows, q) ==
    { u \in rows :
        /\ (q.platform # "" /\ q.platform # "all") => u.platform = q.platform
        /\ q.start_date # 0 => u.upload_date >= q.start_date
        /\ q.end_date # 0 => u.upload_date <= q.end_date
        /\ q.search # <<>> => ILike(u.file_name, q.search) }

PageOf(rows, q) ==
    LET offset == (q.page.n - 1) * q.limit.n
    IN  RangeOf(OrderByDateDesc(rows), offset, OffsetPlusLimit(offset, q.limit) - 1)

Pagination(count, q) ==
    [ page |-> q.page.n, limit |-> q.limit.n, total |-> count,
      totalPages |-> CeilDiv(count, q.limit.n) ]

Stats(allUploads) ==
    [ totalUploads       |-> Cardinality(allUploads),
      successfulUploads  |-> Cardinality({u \in allUploads : u.status = "completed"}),
      totalRowsProcessed |-> SumField(allUploads, "rows_processed") ]

\* f.history: the page query fails; f.stats: the summary query fails
ReportsOutcome(auth, q, f) ==
    LET route == "GET /reports"
        a == Authenticate(auth, f.idDown)
        filtered == FilterUploads(OwnedBy(upload_history, a.user), q)
        pageCall == Call("upload_history", "select", ~f.history)
        statsCall == Call("upload_history", "select", ~f.stats)
    IN  IF ~a.ok THEN Failure(route, auth, a.status, a.error, <<>>)
        ELSE IF f.history
        THEN Reply(route, auth, [caller |-> a.user, status |-> 500,
                                 error |-> StoreMsg("upload_history"),
                                 calls |-> <<pageCall>>])
        ELSE IF f.stats
        THEN Reply(route, auth, [caller |-> a.user, status |-> 500,
                                 error |-> StoreMsg("upload_history"),
                                 calls |-> <<pageCall, statsCall>>])
        ELSE Reply(route, auth, [caller |-> a.user, status |-> 200,
                                 calls |-> <<pageCall, statsCall>>,
                                 uploads |-> PageOf(filtered, q),
                                 pagination |-> Pagination(Cardinality(filtered), q),
                                 stats |-> Stats(OwnedBy(upload_history, a.user))])

ReportQueries ==
    { NoQuery,
      [NoQuery EXCEPT !.platform = "google"],
      [NoQuery EXCEPT !.page = Given(2), !.limit = Given(1)],
      [NoQuery EXCEPT !.search = <<"F">>, !.start_date = 2] }

\* a request to GET /reports with one of the given queries
GetReportsWith(queries) ==
    \E auth \in AuthHeaders :
      \E q \in ParamsFor(auth, queries), f \in ReadFaults(auth, {"history", "stats"}) :
        /\ resp' = ReportsOutcome(auth, q, f)
        /\ UNCHANGED <<campaign_reports, upload_history, products, nInserts,
                       httpSupabase>>
        /\ UNCHANGED srvVars

GetReports == GetReportsWith(ReportQueries)

\* DeleteMatching without the owner filter
DeleteMatchingAnyOwner(table, id, userId) == {r \in table : r.id # id}

\* .delete().eq('id', id).eq('user_id', user.id)
DeleteMatching(table, id, userId) == {r \in table : ~(r.id = id /\ r.user_id = userId)}

DeleteReportOutcome(auth, id, f) ==
    LET route == "DELETE /reports/:id"
        a == Authenticate(auth, f.idDown)
        deleteCall == Call("upload_history", "delete", ~f.history)
    IN  IF ~a.ok
        THEN [reply |-> Failure(route, auth, a.status, a.error, <<>>),
              history |-> upload_history]
        ELSE IF f.history
        THEN [reply |-> Reply(route, auth, [caller |-> a.user, status |-> 500, id |-> id,
                                            error |-> StoreMsg("upload_history"),
                                            calls |-> <<deleteCall>>]),
              history |-> upload_history]
        ELSE [reply |-> Reply(route, auth, [caller |-> a.user, status |-> 200, id |-> id,
                                            message |-> "Upload record deleted successfully",
                                            calls |-> <<deleteCall>>]),
              history |-> DeleteMatching(upload_history, id, a.user)]

DeleteReport ==
    \E auth \in AuthHeaders :
      \E id \in ParamsFor(auth, 1..MaxInserts), f \in ReadFaults(auth, {"history"}) :
        LET out == DeleteReportOutcome(auth, id, f)
        IN  /\ resp' = out.reply
            /\ upload_history' = out.history
            /\ UNCHANGED <<campaign_reports, products, nInserts, httpSupabase>>
            /\ UNCHANGED srvVars

----------------------------------------------------------------------------
(* The products router of src/routes *)

\* rows of campaign_reports in the order the store created them
RECURSIVE OrderById(_)
OrderById(rows) ==
    IF rows = {} THEN <<>>
    ELSE LET first == CHOOSE x \in rows : \A y \in rows :
                          \/ x.id[1] < y.id[1]
                          \/ x.id[1] = y.id[1] /\ x.id[2] <= y.id[2]
         IN  <<first>> \o OrderById(rows \ {first})

\* the keys of platformPerformance, in the order the reduce creates them
RECURSIVE PlatformsOf(_)
PlatformsOf(campaigns) ==
    IF campaigns = <<>> THEN <<>>
    ELSE LET before == PlatformsOf(SubSeq(campaigns, 1, Len(campaigns) - 1))
             p == campaigns[Len(campaigns)].platform
         IN  IF p \in Range(before) THEN before ELSE Append(before, p)

\* metrics.spend > 0 ? metrics.revenue / metrics.spend : 0, as the fraction num / den
PlatformRoas(revenue, spend) ==
    IF spend > 0 THEN [num |-> revenue, den |-> spend] ELSE [num |-> 0, den |-> 1]

\* the loop over Object.entries(platformPerformance): best is replaced only by
\* a strictly greater ROAS
RECURSIVE BestFrom(_, _, _)
BestFrom(platforms, campaigns, best) ==
    IF platforms = <<>> THEN best
    ELSE LET of == {c \in campaigns : c.platform = Head(platforms)}
             spend == SumField(of, "amount_spent")
             revenue == SumField(of, "revenue")
             num == PlatformRoas(revenue, spend).num
             den == PlatformRoas(revenue, spend).den
         IN  BestFrom(Tail(platforms), campaigns,
                      IF num * best.den > best.num * den
                      THEN [platform |-> Head(platforms), num |-> num, den |-> den]
                      ELSE best)

BestPlatform(productCampaigns) ==
    BestFrom(PlatformsOf(OrderById(productCampaigns)), productCampaigns,
             [platform |-> "N/A", num |-> 0, den |-> 1]).platform

\* the campaigns that count for a product
ProductCampaigns(product, campaigns) ==
    { c \in campaigns :
        /\ c.product_name # <<>>
        /\ Includes(ToLowerCase(c.product_name), ToLowerCase(product.product_name)) }

ProductWithMetrics(product, campaigns) ==
    LET productCampaigns == ProductCampaigns(product, campaigns)
        totalSpend == SumField(productCampaigns, "amount_spent")
        totalRevenue == SumField(productCampaigns, "revenue")
    IN  [ totalSpend       |-> totalSpend,
          totalRevenue     |-> totalRevenue,
          totalConversions |-> SumField(productCampaigns, "conversions"),
          bestPlatform     |-> BestPlatform(productCampaigns),
          roas             |-> Roas(totalRevenue, totalSpend) ] @@ product

\* .order('created_at', { ascending: false })
RECURSIVE OrderByCreatedDesc(_)
OrderByCreatedDesc(rows) ==
    IF rows = {} THEN <<>>
    ELSE LET latest == CHOOSE x \in rows : \A y \in rows : y.created_at <= x.created_at
         IN  <<latest>> \o OrderByCreatedDesc(rows \ {latest})

GetProductsOutcome(auth, f) ==
    LET route == "GET /products"
        a == Authenticate(auth, f.idDown)
        own == OrderByCreatedDesc(OwnedBy(products, a.user))
        campaigns == OwnedBy(campaign_reports, a.user)
        productsCall == Call("products", "select", ~f.products)
        campaignsCall == Call("campaign_reports", "select", ~f.campaigns)
    IN  IF ~a.ok THEN Failure(route, auth, a.status, a.error, <<>>)
        ELSE IF f.products
        THEN Reply(route, auth, [caller |-> a.user, status |-> 500,
                                 error |-> StoreMsg("products"),
                                 calls |-> <<productsCall>>])
        ELSE IF f.campaigns
        THEN Reply(route, auth, [caller |-> a.user, status |-> 500,
                                 error |-> StoreMsg("campaign_reports"),
                                 calls |-> <<productsCall, campaignsCall>>])
        ELSE Reply(route, auth, [caller |-> a.user, status |-> 200,
                                 calls |-> <<productsCall, campaignsCall>>,
                                 campaigns |-> campaigns,
                                 products |-> [i \in 1..Len(own) |->
                                                 ProductWithMetrics(own[i], campaigns)]])

GetProducts ==
    \E auth \in AuthHeaders :
      \E f \in ReadFaults(auth, {"products", "campaigns"}) :
        /\ resp' = GetProductsOutcome(auth, f)
        /\ UNCHANGED <<campaign_reports, upload_history, products, nInserts,
                       httpSupabase>>
        /\ UNCHANGED srvVars

\* a field of a JSON body: given is FALSE when the body leaves it out
AbsentNumber == [given |-> FALSE, v |-> 0]
AbsentText == [given |-> FALSE, v |-> <<>>]
Field(v) == [given |-> TRUE, v |-> v]

T_PX == <<"P", "X">>
T_py == <<"p", "y">>

NewProductRow(userId, body, id) ==
    [ id |-> id, user_id |-> userId, product_name |-> body.product_name.v,
      revenue_per_conversion |->
          IF body.revenue_per_conversion.given /\ body.revenue_per_conversion.v # 0
          THEN body.revenue_per_conversion.v ELSE 0,
      created_at |-> id ]

CreateProductOutcome(auth, body, f, id) ==
    LET route == "POST /products"
        a == Authenticate(auth, f.idDown)
        insertCall == Call("products", "insert", ~f.products)
        row == NewProductRow(a.user, body, id)
    IN  IF ~a.ok
        THEN [reply |-> Failure(route, auth, a.status, a.error, <<>>), rows |-> {}]
        ELSE IF ~body.product_name.given \/ body.product_name.v = <<>>
        THEN [reply |-> Reply(route, auth, [caller |-> a.user, status |-> 400,
                                            error |-> "Product name is required"]),
              rows |-> {}]
        ELSE IF f.products
        THEN [reply |-> Reply(route, auth, [caller |-> a.user, status |-> 500,
                                            error |-> StoreMsg("products"),
                                            calls |-> <<insertCall>>]),
              rows |-> {}]
        ELSE [reply |-> Reply(route, auth, [caller |-> a.user, status |-> 200,
                                            calls |-> <<insertCall>>,
                                            products |-> <<row>>]),
              rows |-> {row}]

CreateBodies ==
    { [product_name |-> Field(T_PX), revenue_per_conversion |-> Field(1000)],
      [product_name |-> AbsentText, revenue_per_conversion |-> AbsentNumber] }

CreateProduct ==
    \E auth \in AuthHeaders :
      \E body \in ParamsFor(auth, CreateBodies), f \in ReadFaults(auth, {"products"}) :
        LET out == CreateProductOutcome(auth, body, f, nInserts + 1)
        IN  /\ out.rows # {} => nInserts < MaxInserts
            /\ resp' = out.reply
            /\ products' = products \cup out.rows
            /\ nInserts' = IF out.rows # {} THEN nInserts + 1 ELSE nInserts
            /\ UNCHANGED <<campaign_reports, upload_history, httpSupabase>>
            /\ UNCHANGED srvVars

\* .update({ product_name, revenue_per_conversion }): a field the body leaves
\* out is not sent and keeps its value
UpdatedRow(row, body) ==
    [row EXCEPT
        !.product_name = IF body.product_name.given THEN body.product_name.v ELSE @,
        !.revenue_per_conversion =
            IF body.revenue_per_conversion.given THEN body.revenue_per_conversion.v ELSE @]

\* the rows .eq('id', id).eq('user_id', user.id) selects
Matching(table, id, userId) == {r \in table : r.id = id /\ r.user_id = userId}

NoRowMsg == "JSON object requested, multiple (or no) rows returned"

UpdateProductOutcome(auth, id, body, f) ==
    LET route == "PUT /products/:id"
        a == Authenticate(auth, f.idDown)
        updateCall == Call("products", "update", ~f.products)
        hit == Matching(products, id, a.user)
        updated == {UpdatedRow(r, body) : r \in hit}
    IN  IF ~a.ok
        THEN [reply |-> Failure(route, auth, a.status, a.error, <<>>), table |-> products]
        ELSE IF f.products
        THEN [reply |-> Reply(route, auth, [caller |-> a.user, status |-> 500,
                                            error |-> StoreMsg("products"),
                                            calls |-> <<updateCall>>]),
              table |-> products]
        ELSE IF Cardinality(hit) # 1
        THEN [reply |-> Reply(route, auth, [caller |-> a.user, status |-> 500,
                                            error |-> NoRowMsg,
                                            calls |-> <<updateCall>>]),
              table |-> (products \ hit) \cup updated]
        ELSE [reply |-> Reply(route, auth, [caller |-> a.user, status |-> 200,
                                            calls |-> <<updateCall>>,
                                            products |-> OrderByCreatedDesc(updated)]),
              table |-> (products \ hit) \cup updated]

UpdateBodies == {[product_name |-> Field(T_py), revenue_per_conversion |-> AbsentNumber]}

UpdateProduct ==
    \E auth \in AuthHeaders :
      \E id \in ParamsFor(auth, 1..MaxInserts), body \in UpdateBodies, f \in ReadFaults(auth, {"products"}) :
        LET out == UpdateProductOutcome(auth, id, body, f)
        IN  /\ resp' = out.reply
            /\ products' = out.table
            /\ UNCHANGED <<campaign_reports, upload_history, nInserts,
                           httpSupabase>>
            /\ UNCHANGED srvVars

DeleteProductOutcome(auth, id, f) ==
    LET route == "DELETE /products/:id"
        a == Authenticate(auth, f.idDown)
        deleteCall == Call("products", "delete", ~f.products)
    IN  IF ~a.ok
        THEN [reply |-> Failure(route, auth, a.status, a.error, <<>>), table |-> products]
        ELSE IF f.products
        THEN [reply |-> Reply(route, auth, [caller |-> a.user, status |-> 500,
                                            error |-> StoreMsg("products"),
                                            calls |-> <<deleteCall>>]),
              table |-> products]
        ELSE [reply |-> Reply(route, auth, [caller |-> a.user, status |-> 200,
                                            message |-> "Product deleted successfully",
                                            calls |-> <<deleteCall>>]),
              table |-> DeleteMatching(products, id, a.user)]

DeleteProduct ==
    \E auth \in AuthHeaders :
      \E id \in ParamsFor(auth, 1..MaxInserts), f \in ReadFaults(auth, {"products"}) :
        LET out == DeleteProductOutcome(auth, id, f)
        IN  /\ resp' = out.reply
            /\ products' = out.table
            /\ UNCHANGED <<campaign_reports, upload_history, nInserts,
                           httpSupabase>>
            /\ UNCHANGED srvVars

----------------------------------------------------------------------------
(* The http server of src/server.js *)

HttpLimit == 10

\* the request handler: the path decides, the Authorization header is not read
HttpOutcome(method, path, auth, storeFault) ==
    LET route == "http " \o path
        data == Limit(OrderById(campaign_reports), HttpLimit)
    IN  IF method = "OPTIONS" THEN Reply(route, auth, [status |-> 200])
        ELSE IF path = "/api/health"
        THEN Reply(route, auth, [status |-> 200, message |-> "BiZense Backend is running!"])
        ELSE IF path = "/api/test-db"
        THEN IF ~httpSupabase
             THEN Reply(route, auth, [status |-> 500, error |-> "Supabase not configured"])
             ELSE Reply(route, auth,
                        [ status |-> 200, message |-> "Database connection successful!",
                          error |-> IF storeFault THEN StoreMsg("profiles") ELSE NoMsg,
                          calls |-> <<Call("profiles", "select", ~storeFault)>> ])
        ELSE IF path = "/api/dashboard"
        THEN IF ~httpSupabase
             THEN Reply(route, auth, [status |-> 500, error |-> "Database not connected"])
             ELSE Reply(route, auth,
                        [ status |-> 200, message |-> "Dashboard data",
                          error |-> IF storeFault THEN StoreMsg("campaign_reports") ELSE NoMsg,
                          campaigns |-> IF storeFault THEN {} ELSE Range(data),
                          calls |-> <<Call("campaign_reports", "select", ~storeFault)>> ])
        ELSE Reply(route, auth, [status |-> 404, error |-> "Route not found"])

HttpPaths == {"/api/health", "/api/test-db", "/api/dashboard", "/api/none"}

HttpRequest ==
    \E method \in {"GET", "OPTIONS"}, path \in HttpPaths, auth \in AuthHeaders,
       storeFault \in BOOLEAN :
        /\ resp' = HttpOutcome(method, path, auth, storeFault)
        /\ UNCHANGED <<campaign_reports, upload_history, products, nInserts, httpSupabase>>
        /\ UNCHANGED srvVars

----------------------------------------------------------------------------
(* The Express server of src/ecommerce-dashboard/server.js. The file holds two
   versions of the server one after the other; they share the middleware and
   the upload handler, and differ in the dashboard and in the order of the
   reports. *)

\* an export with the columns the server reads as they are
ResultsCsv ==
    [ present |-> TRUE, originalname |-> <<"r">> \o T_csv, mimetype |-> "text/csv",
      size |-> 64,
      content |-> [ header |-> <<"Campaign name", "Results", "Amount spent (CAD)">>,
                    lines |-> << << <<"P", "X", " ", "-", " ", "S">>,
                                    <<"4">>,
                                    <<"2", ".", "5", "0">> >> >> ] ]

\* authenticateUser: a failure of the identity service is answered 401 as well
SrvAuthenticate(auth, idDown) ==
    LET token == TokenOf(auth)
    IN  IF token = ""
        THEN [ok |-> FALSE, status |-> 401, error |-> "No token provided", user |-> ""]
        ELSE IF idDown
        THEN [ok |-> FALSE, status |-> 401, error |-> "Authentication failed", user |-> ""]
        ELSE IF token \notin DOMAIN Sessions
        THEN [ok |-> FALSE, status |-> 401, error |-> "Invalid token", user |-> ""]
        ELSE [ok |-> TRUE, status |-> 0, error |-> NoMsg, user |-> Sessions[token]]

SrvNoTotals == [totalRevenue |-> 0, totalOrders |-> 0, totalSpend |-> 0]

\* no response yet; answers counts the responses sent for the request
SrvNoResp ==
    [ route |-> "none", auth |-> NoHeader, caller |-> "", status |-> 0,
      error |-> NoMsg, message |-> NoMsg, answers |-> 0, calls |-> <<>>,
      totals |-> SrvNoTotals, platforms |-> <<>>, summary |-> NoPlatformData,
      products |-> <<>>, reports |-> <<>>, recordCount |-> 0 - 1, reportId |-> 0,
      platform |-> "", staged |-> {} ]

SrvReply(route, auth, fields) ==
    fields @@ [SrvNoResp EXCEPT !.route = route, !.auth = auth, !.answers = 1]

SrvFailure(route, auth, status, error, calls) ==
    SrvReply(route, auth, [status |-> status, error |-> error, calls |-> calls])

\* const { platform = 'Facebook' } = req.body: "" stands for a missing field
SrvPlatform(platform) == IF platform = "" THEN "Facebook" ELSE platform

\* multer.diskStorage: Date.now() + '-' + file.originalname
StagedPath(stamp, file) == [stamp |-> stamp, name |-> file.originalname]

\* the row the upload inserts. uploaded_by is not a column of the table: the
\* code stores no owner (org_id is null); the field keeps who sent the file
SrvReportRow(id, platform, file, results, caller) ==
    [ id |-> id, org_id |-> "null", platform |-> platform,
      file_name |-> file.originalname, data |-> results, processed |-> TRUE,
      created_at |-> id, uploaded_by |-> caller ]

\* POST /api/upload. f.read: the staged file cannot be read, and the stream
\* has no 'error' listener; f.insert: the store reports a fault
SrvUploadOutcome(auth, file, platform, f, stamp) ==
    LET route == "POST /api/upload"
        a == SrvAuthenticate(auth, f.idDown)
        filePath == StagedPath(stamp, file)
        results == CsvParse(file.content)
        insertCall == Call("campaign_reports", "insert", ~f.insert)
        report == SrvReportRow(stamp, SrvPlatform(platform), file, results, a.user)
        none == [rows |-> {}, staged |-> {}, kept |-> {}]
    IN  IF ~a.ok
        THEN [reply |-> SrvFailure(route, auth, a.status, a.error, <<>>)] @@ none
        ELSE IF ~file.present
        THEN [reply |-> SrvReply(route, auth, [caller |-> a.user, status |-> 400,
                                               error |-> "No file uploaded"])] @@ none
        ELSE IF f.read
        THEN [ reply |-> [SrvReply(route, auth, [caller |-> a.user,
                                                 staged |-> {filePath}])
                            EXCEPT !.answers = 0],
               rows |-> {}, staged |-> {filePath}, kept |-> {filePath} ]
        ELSE IF f.insert
        THEN [ reply |-> SrvReply(route, auth,
                                  [ caller |-> a.user, status |-> 500,
                                    error |-> StoreMsg("campaign_reports"),
                                    calls |-> <<insertCall>>, staged |-> {filePath} ]),
               rows |-> {}, staged |-> {filePath}, kept |-> {filePath} ]
        ELSE [ reply |-> SrvReply(route, auth,
                                  [ caller |-> a.user, status |-> 200,
                                    message |-> "File uploaded successfully",
                                    recordCount |-> Len(results), reportId |-> report.id,
                                    platform |-> report.platform,
                                    calls |-> <<insertCall>>, staged |-> {filePath} ]),
               rows |-> {report}, staged |-> {filePath}, kept |-> {} ]

NoSrvFaults == [idDown |-> FALSE, read |-> FALSE, insert |-> FALSE]

SrvUploadRequests ==
    { [auth |-> <<"Bearer ", "t1">>, file |-> ResultsCsv,  platform |-> ""],
      [auth |-> <<"Bearer ", "t2">>, file |-> ResultsCsv,  platform |-> "TikTok"],
      [auth |-> <<"Bearer ", "t2">>, file |-> FacebookCsv, platform |-> ""],
      [auth |-> <<"Bearer ", "t1">>, file |-> NoFile,      platform |-> ""],
      [auth |-> NoHeader,            file |-> ResultsCsv,  platform |-> ""],
      [auth |-> <<"Bearer ", "bad">>, file |-> ResultsCsv, platform |-> ""] }

\* one fault per request, at a step the request reaches
SrvUploadFaults(rq) ==
    {NoSrvFaults}
    \cup (IF TokenOf(rq.auth) = "t1" THEN {[NoSrvFaults EXCEPT !.idDown = TRUE]} ELSE {})
    \cup (IF Authed(rq.auth) /\ rq.file.present
          THEN {[NoSrvFaults EXCEPT !.read = TRUE], [NoSrvFaults EXCEPT !.insert = TRUE]}
          ELSE {})

SrvUpload ==
    \E rq \in SrvUploadRequests : \E f \in SrvUploadFaults(rq) :
        LET out == SrvUploadOutcome(rq.auth, rq.file, rq.platform, f, nSrvUploads + 1)
        IN  /\ out.staged # {} => nSrvUploads < MaxSrvUploads
            /\ srvResp' = out.reply
            /\ srvReports' = srvReports \cup out.rows
            /\ disk' = disk \cup out.kept
            /\ nSrvUploads' = IF out.staged # {} THEN nSrvUploads + 1 ELSE nSrvUploads
            /\ UNCHANGED <<srvSettings, routesVars, httpSupabase, user_roles, pending>>

\* the rows of a select without an order clause, taken in the order of insertion
RECURSIVE SrvOrderById(_)
SrvOrderById(rows) ==
    IF rows = {} THEN <<>>
    ELSE LET first == CHOOSE x \in rows : \A y \in rows : x.id <= y.id
         IN  <<first>> \o SrvOrderById(rows \ {first})

\* reports.forEach(report => report.data.forEach(row => ...)): the rows visited
RECURSIVE SrvRows(_)
SrvRows(reports) ==
    IF reports = <<>> THEN <<>>
    ELSE [i \in 1..Len(Head(reports).data) |->
            [platform |-> Head(reports).platform, row |-> Head(reports).data[i]]]
         \o SrvRows(Tail(reports))

\* parseFloat(row[name]) || 0: a missing cell, a text that is no number and 0 give 0
CellOrZero(row, name) ==
    LET parsed == IF name \in DOMAIN row THEN parseFloat(row[name]) ELSE NaN
    IN  IF parsed.nan THEN 0 ELSE parsed.val

RECURSIVE SeqSum(_)
SeqSum(nums) == IF nums = <<>> THEN 0 ELSE Head(nums) + SeqSum(Tail(nums))

\* the elements of a sequence in the order in which they first occur
RECURSIVE FirstSeen(_)
FirstSeen(seq) ==
    IF seq = <<>> THEN <<>>
    ELSE LET init == FirstSeen(SubSeq(seq, 1, Len(seq) - 1))
         IN  IF seq[Len(seq)] \in Range(init) THEN init ELSE Append(init, seq[Len(seq)])

\* Array.prototype.sort((a, b) => b[field] - a[field]): descending and stable
RECURSIVE SortDesc(_, _)
SortDesc(seq, field) ==
    IF seq = <<>> THEN <<>>
    ELSE LET i == CHOOSE k \in 1..Len(seq) :
                     /\ \A j \in 1..Len(seq) : seq[j][field] <= seq[k][field]
                     /\ \A j \in 1..(k - 1) : seq[j][field] < seq[k][field]
         IN  <<seq[i]>> \o SortDesc(SubSeq(seq, 1, i - 1) \o SubSeq(seq, i + 1, Len(seq)),
                                    field)

\* revenue / spend kept as the exact ratio; 0 when nothing was spent
SrvRoas(revenue, spend) ==
    IF spend > 0 THEN [num |-> revenue, den |-> spend] ELSE [num |-> 0, den |-> 1]

SrvTotals(rows) ==
    [ totalRevenue |-> SeqSum([i \in 1..Len(rows) |-> CellOrZero(rows[i].row, "Results")]),
      totalOrders  |-> Len(rows),
      totalSpend   |-> SeqSum([i \in 1..Len(rows) |->
                                  CellOrZero(rows[i].row, "Amount spent (CAD)")]) ]

SrvPlatformStats(rows) ==
    LET names == FirstSeen([i \in 1..Len(rows) |-> rows[i].platform])
        of(name) == SelectSeq(rows, LAMBDA r : r.platform = name)
        stat(name) ==
            LET t == SrvTotals(of(name))
            IN  [ name |-> name, revenue |-> t.totalRevenue, spend |-> t.totalSpend,
                  orders |-> t.totalOrders, roas |-> SrvRoas(t.totalRevenue, t.totalSpend) ]
    IN  SortDesc([k \in 1..Len(names) |-> stat(names[k])], "revenue")

\* the second version's dashboard: the number of rows per platform
SrvSummary(reports) ==
    [ p \in {r.platform : r \in reports} |->
        SeqSum([i \in 1..Len(SrvOrderById({r \in reports : r.platform = p})) |->
                  Len(SrvOrderById({r \in reports : r.platform = p})[i].data)]) ]

\* GET /api/dashboard: every row of the table is read, whoever the caller is
SrvDashboardOutcome(auth, version, f) ==
    LET route == "GET /api/dashboard"
        a == SrvAuthenticate(auth, f.idDown)
        call == Call("campaign_reports", "select", ~f.insert)
        rows == SrvRows(SrvOrderById(srvReports))
    IN  IF ~a.ok THEN SrvFailure(route, auth, a.status, a.error, <<>>)
        ELSE IF f.insert
        THEN SrvReply(route, auth, [caller |-> a.user, status |-> 500,
                                    error |-> StoreMsg("campaign_reports"),
                                    calls |-> <<call>>])
        ELSE IF version = 1
        THEN SrvReply(route, auth, [caller |-> a.user, status |-> 200, calls |-> <<call>>,
                                    totals |-> SrvTotals(rows),
                                    platforms |-> SrvPlatformStats(rows)])
        ELSE SrvReply(route, auth, [caller |-> a.user, status |-> 200, calls |-> <<call>>,
                                    summary |-> SrvSummary(srvReports)])

\* the faults of a read request: f.insert stands for the fault of its query
SrvReadFaults(auth) ==
    {NoSrvFaults}
    \cup (IF TokenOf(auth) = "t1" THEN {[NoSrvFaults EXCEPT !.idDown = TRUE]} ELSE {})
    \cup (IF Authed(auth) THEN {[NoSrvFaults EXCEPT !.insert = TRUE]} ELSE {})

SrvVersions == {1, 2}

SrvGetDashboard ==
    \E auth \in AuthHeaders : \E version \in ParamsFor(auth, SrvVersions) :
    \E f \in SrvReadFaults(auth) :
        /\ srvResp' = SrvDashboardOutcome(auth, version, f)
        /\ UNCHANGED <<srvReports, srvSettings, disk, nSrvUploads, routesVars, httpSupabase, user_roles, pending>>

\* String.prototype.trim on the texts of the model: blanks at both ends go
RECURSIVE Trim(_)
Trim(s) ==
    IF s # <<>> /\ s[1] = " " THEN Trim(Tail(s))
    ELSE IF s # <<>> /\ s[Len(s)] = " " THEN Trim(SubSeq(s, 1, Len(s) - 1))
    ELSE s

T_delim == <<" ", "-", " ">>

\* campaignName.split(' - ')[0]: the text before the first " - ", all of it without one
RECURSIVE BeforeDelimiter(_)
BeforeDelimiter(s) ==
    IF s = <<>> THEN <<>>
    ELSE IF Len(s) >= Len(T_delim) /\ SubSeq(s, 1, Len(T_delim)) = T_delim THEN <<>>
    ELSE <<s[1]>> \o BeforeDelimiter(Tail(s))

\* row['Campaign name'] || '' and the product name read from it
SrvProductName(row) ==
    Trim(BeforeDelimiter(IF "Campaign name" \in DOMAIN row THEN row["Campaign name"]
                         ELSE <<>>))

\* settingsMap.get(productName) || 0
RevenuePerConversion(settings, productName) ==
    IF \E st \in settings : st.product_name = productName
    THEN (CHOOSE st \in settings : st.product_name = productName).revenue_per_conversion
    ELSE 0

\* conversions * revenuePerConversion, both in hundredths
Times(a, b) == (a * b) \div Scale

SrvProducts(rows, settings) ==
    LET named == SelectSeq(rows, LAMBDA r : SrvProductName(r.row) # <<>>)
        names == FirstSeen([i \in 1..Len(named) |-> SrvProductName(named[i].row)])
        of(name) == SelectSeq(named, LAMBDA r : SrvProductName(r.row) = name)
        revenue(rs, name) ==
            SeqSum([i \in 1..Len(rs) |->
                      Times(CellOrZero(rs[i].row, "Results"),
                            RevenuePerConversion(settings, name))])
        on(rs, platform) == SelectSeq(rs, LAMBDA r : r.platform = platform)
        product(name) ==
            LET rs == of(name)
                t == SrvTotals(rs)
            IN  [ name |-> name,
                  totalRevenue |-> revenue(rs, name),
                  facebookRevenue |-> revenue(on(rs, "Facebook"), name),
                  tiktokRevenue |-> revenue(on(rs, "TikTok"), name),
                  googleRevenue |-> revenue(on(rs, "Google"), name),
                  totalSpend |-> t.totalSpend,
                  totalConversions |-> t.totalRevenue,
                  totalROAS |-> SrvRoas(revenue(rs, name), t.totalSpend),
                  revenuePerConversion |-> RevenuePerConversion(settings, name),
                  bestPlatform |-> "Facebook" ]
    IN  SortDesc([k \in 1..Len(names) |-> product(names[k])], "totalRevenue")

\* GET /api/products: both tables are read whole. f.insert: the reports query
\* fails; f.read: the settings query fails
SrvProductsOutcome(auth, f) ==
    LET route == "GET /api/products"
        a == SrvAuthenticate(auth, f.idDown)
        calls == << Call("campaign_reports", "select", ~f.insert),
                    Call("product_settings", "select", ~f.read) >>
    IN  IF ~a.ok THEN SrvFailure(route, auth, a.status, a.error, <<>>)
        ELSE IF f.insert
        THEN SrvReply(route, auth, [caller |-> a.user, status |-> 500,
                                    error |-> StoreMsg("campaign_reports"),
                                    calls |-> calls])
        ELSE IF f.read
        THEN SrvReply(route, auth, [caller |-> a.user, status |-> 500,
                                    error |-> StoreMsg("product_settings"),
                                    calls |-> calls])
        ELSE SrvReply(route, auth,
                      [ caller |-> a.user, status |-> 200, calls |-> calls,
                        products |-> SrvProducts(SrvRows(SrvOrderById(srvReports)),
                                                 srvSettings) ])

SrvGetProducts ==
    \E auth \in AuthHeaders :
    \E f \in SrvReadFaults(auth)
             \cup (IF Authed(auth) THEN {[NoSrvFaults EXCEPT !.read = TRUE]} ELSE {}) :
        /\ srvResp' = SrvProductsOutcome(auth, f)
        /\ UNCHANGED <<srvReports, srvSettings, disk, nSrvUploads, routesVars, httpSupabase, user_roles, pending>>

\* .order('created_at', { ascending: false })
RECURSIVE SrvOrderByCreatedDesc(_)
SrvOrderByCreatedDesc(rows) ==
    IF rows = {} THEN <<>>
    ELSE LET latest == CHOOSE x \in rows : \A y \in rows : y.created_at <= x.created_at
         IN  <<latest>> \o SrvOrderByCreatedDesc(rows \ {latest})

\* GET /api/reports: every row of the table, newest first
SrvReportsOutcome(auth, f) ==
    LET route == "GET /api/reports"
        a == SrvAuthenticate(auth, f.idDown)
        call == Call("campaign_reports", "select", ~f.insert)
    IN  IF ~a.ok THEN SrvFailure(route, auth, a.status, a.error, <<>>)
        ELSE IF f.insert
        THEN SrvReply(route, auth, [caller |-> a.user, status |-> 500,
                                    error |-> StoreMsg("campaign_reports"),
                                    calls |-> <<call>>])
        ELSE SrvReply(route, auth, [caller |-> a.user, status |-> 200, calls |-> <<call>>,
                                    reports |-> SrvOrderByCreatedDesc(srvReports)])

SrvGetReports ==
    \E auth \in AuthHeaders : \E f \in SrvReadFaults(auth) :
        /\ srvResp' = SrvReportsOutcome(auth, f)
        /\ UNCHANGED <<srvReports, srvSettings, disk, nSrvUploads, routesVars, httpSupabase, user_roles, pending>>

\* upsert of product_settings; the row that holds the product name is replaced
Upsert(settings, row) ==
    {st \in settings : st.product_name # row.product_name} \cup {row}

\* POST /api/products/:productName/revenue
SrvRevenueOutcome(auth, productName, revenuePerConversion, f) ==
    LET route == "POST /api/products/:productName/revenue"
        a == SrvAuthenticate(auth, f.idDown)
        call == Call("product_settings", "upsert", ~f.insert)
        row == [ product_name |-> productName,
                 revenue_per_conversion |-> revenuePerConversion ]
    IN  IF ~a.ok
        THEN [reply |-> SrvFailure(route, auth, a.status, a.error, <<>>),
              settings |-> srvSettings]
        ELSE IF f.insert
        THEN [reply |-> SrvReply(route, auth, [caller |-> a.user, status |-> 500,
                                               error |-> StoreMsg("product_settings"),
                                               calls |-> <<call>>]),
              settings |-> srvSettings]
        ELSE [reply |-> SrvReply(route, auth,
                                 [ caller |-> a.user, status |-> 200,
                                   message |-> "Product revenue updated successfully",
                                   calls |-> <<call>> ]),
              settings |-> Upsert(srvSettings, row)]

\* the revenue per conversion of a request, in hundredths
RevenueInputs == {10 * Scale}

SrvSetRevenue ==
    \E auth \in AuthHeaders : \E rpc \in RevenueInputs : \E f \in SrvReadFaults(auth) :
        LET out == SrvRevenueOutcome(auth, T_PX, rpc, f)
        IN  /\ srvResp' = out.reply
            /\ srvSettings' = out.settings
            /\ UNCHANGED <<srvReports, disk, nSrvUploads, routesVars, httpSupabase, user_roles, pending>>

\* GET /api/profile and the endpoints that answer an empty list
SrvStubRoutes ==
    { "GET /api/profile", "GET /api/platform-analytics", "GET /api/team-activity",
      "GET /api/trends", "GET /api/creatives" }

SrvStubOutcome(route, auth, idDown) ==
    LET a == SrvAuthenticate(auth, idDown)
    IN  IF ~a.ok THEN SrvFailure(route, auth, a.status, a.error, <<>>)
        ELSE SrvReply(route, auth, [caller |-> a.user, status |-> 200])

SrvStub ==
    \E auth \in AuthHeaders : \E route \in ParamsFor(auth, SrvStubRoutes) :
        /\ srvResp' = SrvStubOutcome(route, auth, FALSE)
        /\ UNCHANGED <<srvReports, srvSettings, disk, nSrvUploads, routesVars, httpSupabase, user_roles, pending>>

----------------------------------------------------------------------------
(* The role-aware dashboard handler of src/ecommerce-dashboard/api/dashboard.js *)

\* the contents of user_roles: both users hold a role, or only the admin does
NoRoles == {}
RoleTables ==
    { { [user_id |-> "u1", role |-> "admin", org_id |-> "o1"],
        [user_id |-> "u2", role |-> "viewer", org_id |-> "o1"] },
      { [user_id |-> "u1", role |-> "admin", org_id |-> "o1"] } }

\* authenticateUser of the handler: every failure is thrown as an Error.
\* f.idDown: getUser throws; f.read: the user_roles query reports a fault
ApiAuthenticate(auth, f) ==
    LET token == TokenOf(auth)
        none == [ok |-> FALSE, user |-> "", userRole |-> "", orgId |-> "", calls |-> <<>>]
        userId == Sessions[token]
        roleCall(ok) == Call("user_roles", "select", ok)
        roleRows == {r \in user_roles : r.user_id = userId}
    IN  IF token = "" THEN [thrown |-> "No token provided"] @@ none
        ELSE IF f.idDown THEN [thrown |-> IdentityDownMsg] @@ none
        ELSE IF token \notin DOMAIN Sessions THEN [thrown |-> "Invalid token"] @@ none
        ELSE IF f.read
        THEN [thrown |-> "No role assigned", calls |-> <<roleCall(FALSE)>>] @@ none
        ELSE IF Cardinality(roleRows) # 1
        THEN [thrown |-> "No role assigned", calls |-> <<roleCall(FALSE)>>] @@ none
        ELSE LET roleData == CHOOSE r \in roleRows : TRUE
             IN  [ ok |-> TRUE, thrown |-> NoMsg, user |-> userId,
                   userRole |-> roleData.role, orgId |-> roleData.org_id,
                   calls |-> <<roleCall(TRUE)>> ]

\* .eq('org_id', orgId)
OfOrg(reports, orgId) == {r \in reports : r.org_id = orgId}

\* the handler: what authenticateUser throws is answered by the catch, as 500
ApiDashboardOutcome(method, auth, f) ==
    LET route == method \o " api/dashboard"
        a == ApiAuthenticate(auth, f)
        call == Call("campaign_reports", "select", ~f.insert)
        rows == SrvRows(SrvOrderById(OfOrg(srvReports, a.orgId)))
    IN  IF method # "GET" THEN SrvFailure(route, auth, 405, "Method not allowed", <<>>)
        ELSE IF ~a.ok THEN SrvFailure(route, auth, 500, a.thrown, a.calls)
        ELSE IF a.userRole # "admin"
        THEN SrvReply(route, auth, [caller |-> a.user, status |-> 403,
                                    error |-> "Admin access required", calls |-> a.calls])
        ELSE IF f.insert
        THEN SrvReply(route, auth, [caller |-> a.user, status |-> 500,
                                    error |-> StoreMsg("campaign_reports"),
                                    calls |-> a.calls \o <<call>>])
        ELSE SrvReply(route, auth, [caller |-> a.user, status |-> 200,
                                    calls |-> a.calls \o <<call>>,
                                    totals |-> SrvTotals(rows),
                                    platforms |-> SrvPlatformStats(rows)])

ApiMethods == {"GET", "POST"}

\* one fault per request, at a step the request reaches
ApiFaults(auth) ==
    SrvReadFaults(auth)
    \cup (IF Authed(auth) THEN {[NoSrvFaults EXCEPT !.read = TRUE]} ELSE {})

ApiDashboard ==
    \E method \in ApiMethods : \E auth \in AuthHeaders : \E f \in ApiFaults(auth) :
        /\ srvResp' = ApiDashboardOutcome(method, auth, f)
        /\ UNCHANGED <<srvReports, srvSettings, disk, nSrvUploads, routesVars, httpSupabase,
                       user_roles, pending>>

----------------------------------------------------------------------------
(* The life of one upload request, a step for every point where the handler *)
(* waits: Received, Parsed, Transformed, Persisted, Recorded, or Failed      *)

Idle ==
    [ handler |-> "none", step |-> "Idle", answers |-> 0, nth |-> 0,
      rq |-> [auth |-> NoHeader, file |-> NoFile, platform |-> ""], f |-> NoFaults,
      out |-> [reply |-> NoResp] ]

\* no request is in progress, and the model follows one more
Settled == pending.step \in {"Idle", "Recorded", "Failed"} /\ pending.nth < MaxRequests

\* a request has arrived. What its handler does is a function of the request
\* and of the faults its collaborators will show: out
Arrived(handler, rq, f, out, nth) ==
    [handler |-> handler, step |-> "Received", answers |-> 0,
     nth |-> nth, rq |-> rq, f |-> f, out |-> out]

\* the handler moves on without answering
Moved(step) == [pending EXCEPT !.step = step]

\* res.json: the request is answered and ends in the given state
Answered(step) == [pending EXCEPT !.step = step, !.answers = @ + 1]

\* the request reaches the router of src/routes
UploadReceive ==
    /\ Settled
    /\ \E rq \in UploadRequests : \E f \in UploadFaults(rq) :
        LET out == UploadOutcome(rq.auth, rq.file, rq.platform, f, nInserts + 1)
        IN  /\ out.rows # {} => nInserts < MaxInserts
            /\ pending' = Arrived("routes", rq, f, out, pending.nth + 1)
    /\ UNCHANGED <<routesVars, httpSupabase, srvReports, srvSettings, disk,
                   nSrvUploads, srvResp, user_roles>>

\* multer, the token, getUser, the file and platform checks, the parser and
\* the empty check: each of them answers and returns, or the handler goes on
UploadParse ==
    /\ pending.handler = "routes" /\ pending.step = "Received"
    /\ IF pending.out.reply.status # 200 /\ pending.out.reply.calls = <<>>
       THEN resp' = pending.out.reply /\ pending' = Answered("Failed")
       ELSE resp' = resp /\ pending' = Moved("Parsed")
    /\ UNCHANGED <<campaign_reports, upload_history, products, nInserts, httpSupabase,
                   srvReports, srvSettings, disk, nSrvUploads, srvResp, user_roles>>

\* csvData.map: no row fails
UploadTransform ==
    /\ pending.handler = "routes" /\ pending.step = "Parsed"
    /\ pending' = Moved("Transformed")
    /\ UNCHANGED <<routesVars, httpSupabase, srvReports, srvSettings, disk,
                   nSrvUploads, srvResp, user_roles>>

\* the bulk insert: a fault is answered with 500
UploadPersist ==
    /\ pending.handler = "routes" /\ pending.step = "Transformed"
    /\ IF pending.out.reply.status # 200
       THEN /\ resp' = pending.out.reply
            /\ pending' = Answered("Failed")
            /\ UNCHANGED <<campaign_reports, nInserts>>
       ELSE /\ campaign_reports' = campaign_reports \cup pending.out.rows
            /\ nInserts' = nInserts + 1
            /\ pending' = Moved("Persisted")
            /\ resp' = resp
    /\ UNCHANGED <<upload_history, products, httpSupabase, srvReports, srvSettings,
                   disk, nSrvUploads, srvResp, user_roles>>

\* the history insert, whose fault is only logged, and the answer
UploadRecord ==
    /\ pending.handler = "routes" /\ pending.step = "Persisted"
    /\ upload_history' = upload_history \cup pending.out.history
    /\ resp' = pending.out.reply
    /\ pending' = Answered("Recorded")
    /\ UNCHANGED <<campaign_reports, products, nInserts, httpSupabase, srvReports,
                   srvSettings, disk, nSrvUploads, srvResp, user_roles>>

\* the request reaches the Express server
SrvUploadReceive ==
    /\ Settled
    /\ \E rq \in SrvUploadRequests : \E f \in SrvUploadFaults(rq) :
        LET out == SrvUploadOutcome(rq.auth, rq.file, rq.platform, f, nSrvUploads + 1)
        IN  /\ out.staged # {} => nSrvUploads < MaxSrvUploads
            /\ pending' = Arrived("server", rq, f, out, pending.nth + 1)
    /\ UNCHANGED <<routesVars, httpSupabase, srvReports, srvSettings, disk,
                   nSrvUploads, srvResp, user_roles>>

\* authenticateUser, multer staging the file, the file check, and the read
\* stream piped into the parser. The stream has 'data' and 'end' listeners
\* only: when the staged file cannot be read, 'end' never comes and the
\* handler has no step left to take
SrvUploadParse ==
    /\ pending.handler = "server" /\ pending.step = "Received"
    /\ disk' = disk \cup pending.out.staged
    /\ nSrvUploads' = IF pending.out.staged # {} THEN nSrvUploads + 1 ELSE nSrvUploads
    /\ IF pending.out.staged = {}
       THEN srvResp' = pending.out.reply /\ pending' = Answered("Failed")
       ELSE IF pending.out.reply.answers = 0
       THEN srvResp' = pending.out.reply /\ pending' = Moved("Reading")
       ELSE srvResp' = srvResp /\ pending' = Moved("Parsed")
    /\ UNCHANGED <<routesVars, httpSupabase, srvReports, srvSettings, user_roles>>

\* the insert of the 'end' listener: a fault is answered with 500, a stored
\* report is answered after the staged file is removed
SrvUploadPersist ==
    /\ pending.handler = "server" /\ pending.step = "Parsed"
    /\ srvReports' = srvReports \cup pending.out.rows
    /\ disk' = (disk \ pending.out.staged) \cup pending.out.kept
    /\ srvResp' = pending.out.reply
    /\ pending' = Answered(IF pending.out.rows # {} THEN "Recorded" ELSE "Failed")
    /\ UNCHANGED <<routesVars, httpSupabase, srvSettings, nSrvUploads, user_roles>>

\* the steps a handler takes by itself once the request has arrived
HandlerStep ==
    \/ UploadParse
    \/ UploadTransform
    \/ UploadPersist
    \/ UploadRecord
    \/ SrvUploadParse
    \/ SrvUploadPersist

----------------------------------------------------------------------------
(* Specifications *)

InitStore ==
    /\ campaign_reports = {}
    /\ upload_history = {}
    /\ products = {}
    /\ nInserts = 0
    /\ resp = NoResp
    /\ srvReports = {}
    /\ srvSettings = {}
    /\ disk = {}
    /\ nSrvUploads = 0
    /\ srvResp = SrvNoResp
    /\ pending = Idle

\* the routers of src/routes
Init == InitStore /\ httpSupabase = TRUE /\ user_roles = NoRoles

Next ==
    \/ Upload
    \/ GetDashboard
    \/ GetProfile
    \/ GetReports
    \/ DeleteReport
    \/ GetProducts
    \/ CreateProduct
    \/ UpdateProduct
    \/ DeleteProduct

Spec == Init /\ [][Next]_vars

\* the http server of src/server.js beside the upload route that fills the
\* table it reads; the client exists or not, as the environment decides at start
InitHttp == InitStore /\ httpSupabase \in BOOLEAN /\ user_roles = NoRoles

NextHttp ==
    \/ Upload
    \/ HttpRequest

SpecHttp == InitHttp /\ [][NextHttp]_vars

\* the Express server of src/ecommerce-dashboard/server.js
InitServer == InitStore /\ httpSupabase = TRUE /\ user_roles = NoRoles

NextServer ==
    \/ SrvUpload
    \/ SrvGetDashboard
    \/ SrvGetProducts
    \/ SrvGetReports
    \/ SrvSetRevenue
    \/ SrvStub

SpecServer == InitServer /\ [][NextServer]_vars

\* the ROAS computations over stored collections: the tables hold what
\* uploads of such rows leave, and the read handlers compute over them
RoasCampaign(i, platform, spend, revenue) ==
    [ id |-> <<1, i>>, user_id |-> "u1", file_name |-> <<"f">> \o T_csv,
      platform |-> platform, campaign_name |-> <<"c">>, product_name |-> T_PX,
      amount_spent |-> spend, revenue |-> revenue, conversions |-> Scale,
      clicks |-> 0, impressions |-> 0, raw_data |-> <<>> ]

RoasCampaigns ==
    { RoasCampaign(1, "facebook", 0, 10 * Scale),
      RoasCampaign(2, "google", 0, 0),
      RoasCampaign(3, "facebook", 5 * Scale, 10 * Scale),
      RoasCampaign(4, "tiktok", 0 - 5 * Scale, 2 * Scale) }

RoasReport(id, platform, results, spend) ==
    [ id |-> id, org_id |-> "null", platform |-> platform,
      file_name |-> <<"r">> \o T_csv,
      data |-> << [h \in {"Campaign name", "Results", "Amount spent (CAD)"} |->
                     CASE h = "Campaign name" -> T_PX \o T_delim \o <<"S">>
                       [] h = "Results" -> results
                       [] OTHER -> spend] >>,
      processed |-> TRUE, created_at |-> id, uploaded_by |-> "u1" ]

RoasReports ==
    { RoasReport(1, "Facebook", <<"4">>, <<"0">>),
      RoasReport(2, "TikTok", <<"3">>, <<"$", "9">>),
      RoasReport(3, "Google", <<"5">>, <<"2", ".", "5", "0">>) }

InitRoas ==
    /\ campaign_reports \in SUBSET RoasCampaigns
    /\ upload_history = {}
    /\ products = {NewProductRow("u1", [product_name |-> Field(T_PX),
                                        revenue_per_conversion |-> AbsentNumber], 2)}
    /\ nInserts = 2
    /\ resp = NoResp
    /\ srvReports \in SUBSET RoasReports
    /\ srvSettings = {}
    /\ disk = {}
    /\ nSrvUploads = Cardinality(srvReports)
    /\ srvResp = SrvNoResp
    /\ httpSupabase = TRUE
    /\ user_roles = NoRoles
    /\ pending = Idle

NextRoas ==
    \/ GetDashboard
    \/ GetProducts
    \/ SrvGetDashboard

SpecRoas == InitRoas /\ [][NextRoas]_vars

\* the platform breakdown over stored rows whose platform column holds any
\* text or none: the rows of a table that other clients of the store write too
BreakdownCampaigns ==
    { RoasCampaign(1, "facebook", 5 * Scale, 10 * Scale),
      RoasCampaign(2, "tiktok", 1 * Scale, 0),
      RoasCampaign(3, "google", 2 * Scale, 3 * Scale),
      RoasCampaign(4, "", 3 * Scale, 4 * Scale),
      RoasCampaign(5, "snapchat", 7 * Scale, 2 * Scale),
      RoasCampaign(6, "Facebook", 1 * Scale, 1 * Scale) }

InitBreakdown ==
    /\ campaign_reports \in SUBSET BreakdownCampaigns
    /\ upload_history = {}
    /\ products = {}
    /\ nInserts = 1
    /\ resp = NoResp
    /\ srvReports = {}
    /\ srvSettings = {}
    /\ disk = {}
    /\ nSrvUploads = 0
    /\ srvResp = SrvNoResp
    /\ httpSupabase = TRUE
    /\ user_roles = NoRoles
    /\ pending = Idle

NextBreakdown == GetDashboard

SpecBreakdown == InitBreakdown /\ [][NextBreakdown]_vars

\* the paging of GET /reports over the history that k uploads of one user
\* and one upload of the other leave
PagingRows(userId) ==
    ProcessedData(CsvParse(FacebookCsv.content), userId, FacebookCsv.originalname, "facebook")

PagingCampaigns(k) ==
    UNION {InsertedRows(PagingRows("u1"), b) : b \in 1..k}
    \cup InsertedRows(PagingRows("u2"), k + 1)

PagingHistory(k) ==
    { HistoryRow("u1", FacebookCsv.originalname, "facebook", PagingRows("u1"), b) :
        b \in 1..k }
    \cup { HistoryRow("u2", FacebookCsv.originalname, "facebook",
                      PagingRows("u2"), k + 1) }

\* page and limit as the query string gives them, and the defaults
PagingQueries ==
    {[NoQuery EXCEPT !.page = Given(pg), !.limit = Given(lm)] : pg \in 1..3, lm \in 1..2}
    \cup {NoQuery, [NoQuery EXCEPT !.page = Given(2)]}

InitPaging ==
    \E k \in 0..MaxHistory :
        /\ campaign_reports = PagingCampaigns(k)
        /\ upload_history = PagingHistory(k)
        /\ products = {}
        /\ nInserts = k + 1
        /\ resp = NoResp
        /\ srvReports = {}
        /\ srvSettings = {}
        /\ disk = {}
        /\ nSrvUploads = 0
        /\ srvResp = SrvNoResp
        /\ httpSupabase = TRUE
        /\ user_roles = NoRoles
        /\ pending = Idle

NextPaging == GetReportsWith(PagingQueries)

SpecPaging == InitPaging /\ [][NextPaging]_vars

\* the role-aware handler beside the upload of the Express server, which
\* fills the table it reads
InitApi == InitStore /\ httpSupabase = TRUE /\ user_roles \in RoleTables

NextApi ==
    \/ SrvUpload
    \/ ApiDashboard

SpecApi == InitApi /\ [][NextApi]_vars

\* upload requests of both deployments followed step by step, one at a time.
\* Once a request has arrived, the runtime runs each continuation of its
\* handler when the call it waits for has settled: the steps are weakly fair
InitLifecycle == InitStore /\ httpSupabase = TRUE /\ user_roles = NoRoles

NextLifecycle ==
    \/ UploadReceive
    \/ UploadParse
    \/ UploadTransform
    \/ UploadPersist
    \/ UploadRecord
    \/ SrvUploadReceive
    \/ SrvUploadParse
    \/ SrvUploadPersist

SpecLifecycle == InitLifecycle /\ [][NextLifecycle]_vars /\ WF_vars(HandlerStep)

\* the Row Transformer over rows keyed by the names of the stored record:
\* one upload of a one-row CSV has arrived at the router of src/routes, its
\* cells drawn from two texts and two numerals, and the handler takes its steps
CanonicalFields ==
    <<"campaign_name", "product_name", "amount_spent", "revenue", "conversions",
      "clicks", "impressions">>

CanonicalTexts == {<<"c", "1">>, <<"P", "X">>}
CanonicalNumerals == {<<"7">>, <<"1", "2", ".", "5", "0">>}

CanonicalFiles ==
    { [FacebookCsv EXCEPT !.content =
          [header |-> CanonicalFields, lines |-> << <<c, p, a, r, v, k, m>> >>]] :
        c \in CanonicalTexts, p \in CanonicalTexts, a \in CanonicalNumerals,
        r \in CanonicalNumerals, v \in CanonicalNumerals, k \in CanonicalNumerals,
        m \in CanonicalNumerals }

InitTransform ==
    /\ campaign_reports = {}
    /\ upload_history = {}
    /\ products = {}
    /\ nInserts = 0
    /\ resp = NoResp
    /\ srvReports = {}
    /\ srvSettings = {}
    /\ disk = {}
    /\ nSrvUploads = 0
    /\ srvResp = SrvNoResp
    /\ httpSupabase = TRUE
    /\ user_roles = NoRoles
    /\ \E file \in CanonicalFiles :
          LET rq == [auth |-> <<"Bearer ", "t1">>, file |-> file, platform |-> "facebook"]
          IN  pending = Arrived("routes", rq, NoFaults,
                                UploadOutcome(rq.auth, rq.file, rq.platform, NoFaults, 1),
                                1)

NextTransform ==
    \/ UploadParse
    \/ UploadTransform
    \/ UploadPersist
    \/ UploadRecord

SpecTransform == InitTransform /\ [][NextTransform]_vars

\* the Numeric Coercer over every short text: one upload of a CSV whose only
\* column is Spend has arrived at the router of src/routes, its cell any text
\* of a digit, the point, the minus sign and a currency sign
CellChars == {"1", ".", "-", "$"}

CellTexts == UNION {[1..n -> CellChars] : n \in 0..MaxCellLen}

SpendFiles ==
    { [FacebookCsv EXCEPT !.content = [header |-> <<"Spend">>, lines |-> << <<cell>> >>]] :
        cell \in CellTexts }

InitCoercer ==
    /\ campaign_reports = {}
    /\ upload_history = {}
    /\ products = {}
    /\ nInserts = 0
    /\ resp = NoResp
    /\ srvReports = {}
    /\ srvSettings = {}
    /\ disk = {}
    /\ nSrvUploads = 0
    /\ srvResp = SrvNoResp
    /\ httpSupabase = TRUE
    /\ user_roles = NoRoles
    /\ \E file \in SpendFiles :
          LET rq == [auth |-> <<"Bearer ", "t1">>, file |-> file, platform |-> "facebook"]
          IN  pending = Arrived("routes", rq, NoFaults,
                                UploadOutcome(rq.auth, rq.file, rq.platform, NoFaults, 1),
                                1)

NextCoercer ==
    \/ UploadParse
    \/ UploadTransform
    \/ UploadPersist
    \/ UploadRecord

SpecCoercer == InitCoercer /\ [][NextCoercer]_vars

----------------------------------------------------------------------------
(* Claims *)

Platforms == {"facebook", "tiktok", "google"}

\* the response is the one of an upload that the handler took up with a file
UploadWithFile(r) == r.route = "POST /upload" /\ r.caller # "" /\ r.hasFile

\* C1: an authenticated upload that carries a file (one the upload middleware
\* handed to the handler) and whose platform is missing or not one of
\* facebook, tiktok, google is answered 400 before the CSV is parsed, and the
\* request adds no row to campaign_reports or upload_history.
C1_InvalidPlatformRejected ==
    [][ (UploadWithFile(resp') /\ resp'.platform \notin Platforms)
        => /\ resp'.status = 400
           /\ ~resp'.parsed
           /\ resp'.calls = <<>>
           /\ campaign_reports' = campaign_reports
           /\ upload_history' = upload_history ]_vars

C1_Witness ==
    /\ UploadWithFile(resp)
    /\ resp.platform = "snapchat"
    /\ resp.status = 400
    /\ campaign_reports # {}

\* C2: an upload with a valid platform whose CSV parses to zero data rows is
\* answered 400, and neither a campaign_reports batch nor an upload_history
\* entry is written.
C2_EmptyCsvRejected ==
    [][ (UploadWithFile(resp') /\ resp'.platform \in Platforms /\ resp'.csvRows = 0)
        => /\ resp'.status = 400
           /\ resp'.calls = <<>>
           /\ campaign_reports' = campaign_reports
           /\ upload_history' = upload_history ]_vars

C2_Witness ==
    /\ UploadWithFile(resp)
    /\ resp.platform = "facebook"
    /\ resp.csvRows = 0
    /\ resp.status = 400

\* the bulk insert of the upload reported an error
InsertFailed(r) ==
    /\ r.route = "POST /upload"
    /\ r.calls # <<>>
    /\ r.calls[1] = Call("campaign_reports", "insert", FALSE)

\* the upload stopped at the failed insert: one attempt, no history entry, no row
AbortedAtInsert ==
    /\ resp'.status = 500
    /\ Len(resp'.calls) = 1
    /\ campaign_reports' = campaign_reports
    /\ upload_history' = upload_history

HistoryFailed(r) ==
    /\ r.route = "POST /upload"
    /\ Len(r.calls) = 2
    /\ r.calls[1] = Call("campaign_reports", "insert", TRUE)
    /\ r.calls[2] = Call("upload_history", "insert", FALSE)

\* C4: when the campaign_reports insert succeeds and the upload_history insert
\* fails, the caller still receives the success response with rowsProcessed
\* and the inserted data, the fault is not in the response, and the inserted
\* campaign records stay in the table.
C4_HistoryFaultNotSurfaced ==
    [][ HistoryFailed(resp')
        => /\ resp'.status = 200
           /\ resp'.error = NoMsg
           /\ resp'.rowsProcessed = resp'.csvRows
           /\ resp'.rowsProcessed > 0
           /\ resp'.campaigns = campaign_reports' \ campaign_reports
           /\ Cardinality(resp'.campaigns) = resp'.rowsProcessed
           /\ campaign_reports \subseteq campaign_reports'
           /\ upload_history' = upload_history ]_vars

C4_Witness ==
    /\ HistoryFailed(resp)
    /\ resp.status = 200
    /\ resp.campaigns # {}
    /\ resp.campaigns \subseteq campaign_reports

\* the rows of campaign_reports that one upload inserted
BatchRows(batch) == {c \in campaign_reports : c.id[1] = batch}

\* C5: every upload_history entry was written after the successful bulk insert
\* of its own upload, and its rows_processed is the number of campaign_reports
\* records that upload inserted, which is also the number of parsed CSV rows
\* and the rowsProcessed returned to the caller.
C5_HistoryCountsBatch ==
    /\ \A h \in upload_history :
          /\ h.rows_processed = Cardinality(BatchRows(h.id))
          /\ h.rows_processed > 0
    /\ resp.route = "POST /upload" =>
          /\ \A i \in 1..Len(resp.calls) :
                resp.calls[i].table = "upload_history"
                => i = 2 /\ resp.calls[1] = Call("campaign_reports", "insert", TRUE)
          /\ resp.status = 200 =>
                /\ resp.rowsProcessed = resp.csvRows
                /\ resp.rowsProcessed = Cardinality(resp.campaigns)
                /\ resp.campaigns = BatchRows(nInserts)
                /\ \A h \in upload_history :
                      h.id = nInserts => h.rows_processed = resp.rowsProcessed

C5_Witness ==
    /\ resp.route = "POST /upload"
    /\ resp.status = 200
    /\ \E h \in upload_history : h.id = nInserts /\ h.rows_processed = 2
    /\ \E h \in upload_history : h.id # nInserts /\ h.rows_processed = 1

\* the routes of src/routes
RouterRoutes ==
    { "GET /dashboard", "GET /reports", "DELETE /reports/:id", "GET /products",
      "POST /products", "PUT /products/:id", "DELETE /products/:id", "POST /upload",
      "GET /auth/profile" }

\* C6: on every route of src/routes a request with no Authorization header is
\* answered 401, a request whose token the identity service rejects is
\* answered 401 with the service's message, and in both cases no table of the
\* store is read or written for the request.
C6_UnauthenticatedIs401 ==
    resp.route \in RouterRoutes =>
        /\ resp.auth = NoHeader => resp.status = 401 /\ resp.calls = <<>>
        /\ TokenOf(resp.auth) = "bad" =>
              resp.status = 401 /\ resp.error = AuthMsg /\ resp.calls = <<>>

\* the unauthenticated requests that are answered as C6 says
C6_Witness ==
    /\ resp.route = "POST /upload"
    /\ resp.auth = NoHeader
    /\ resp.status = 401
    /\ resp.calls = <<>>

\* the rows of a table that the caller of the last request owns
Mine(table) == {r \in table : r.user_id = resp'.caller}

\* the rows of a table that the last request wrote or changed
Written(before, after) == after \ before

\* a request leaves the rows of the other users as they were
OthersKept(before, after) == \A r \in before : r.user_id # resp'.caller => r \in after

\* C7: with two users and any sequence of requests to the routes of
\* src/routes, every record a request creates or rewrites is owned by the
\* caller, every response holds only records owned by the caller and figures
\* computed from them, and no request changes or removes a record of another
\* user.
C7_OwnerScoped ==
    [][ /\ \A r \in Written(campaign_reports, campaign_reports')
                    \cup Written(upload_history, upload_history')
                    \cup Written(products, products') :
              resp'.caller # "" /\ r.user_id = resp'.caller
        /\ \A r \in resp'.campaigns : r.user_id = resp'.caller
        /\ \A i \in 1..Len(resp'.uploads) : resp'.uploads[i].user_id = resp'.caller
        /\ \A i \in 1..Len(resp'.products) : resp'.products[i].user_id = resp'.caller
        /\ (resp'.route = "GET /dashboard" /\ resp'.status = 200) =>
              /\ resp'.kpis = Kpis(Mine(campaign_reports))
              /\ resp'.platformData = PlatformData(Mine(campaign_reports))
        /\ (resp'.route = "GET /reports" /\ resp'.status = 200) =>
              resp'.stats = Stats(Mine(upload_history))
        /\ (resp'.route = "GET /products" /\ resp'.status = 200) =>
              \A i \in 1..Len(resp'.products) :
                 resp'.products[i].totalSpend
                    <= SumField(Mine(campaign_reports), "amount_spent")
        /\ OthersKept(campaign_reports, campaign_reports')
        /\ OthersKept(upload_history, upload_history')
        /\ OthersKept(products, products') ]_vars

C7_Witness ==
    /\ resp.route = "GET /dashboard"
    /\ resp.status = 200
    /\ resp.campaigns # {}
    /\ \E c \in campaign_reports : c.user_id # resp.caller
    /\ \E h \in upload_history : h.user_id # resp.caller

\* C9: the server of src/server.js returns campaign report data on
\* /api/dashboard only to a request that presents a valid bearer token.
C9_CampaignDataNeedsToken ==
    (resp.route = "http /api/dashboard" /\ resp.campaigns # {}) => Authed(resp.auth)

\* a store query of the last request reported a fault
FaultAt(i) == i \in 1..Len(resp.calls) /\ ~resp.calls[i].ok

\* C10: on GET /dashboard, once the caller is authenticated, a fault of the
\* campaign_reports read or of the upload_history read yields a 500 response
\* with the store's message, never a 200 response.
C10_DashboardFaultIs500 ==
    (resp.route = "GET /dashboard" /\ resp.caller # "") =>
        \A i \in 1..Len(resp.calls) :
            FaultAt(i) => resp.status = 500 /\ resp.error = StoreMsg(resp.calls[i].table)

\* the fault of the campaign_reports read is answered as C10 says
C10_Witness ==
    /\ resp.route = "GET /dashboard"
    /\ FaultAt(1)
    /\ resp.status = 500
    /\ resp.error = StoreMsg("campaign_reports")

\* the reports of the Express server that the caller of the last request sent
SrvOwn == {r \in srvReports : r.uploaded_by = srvResp.caller}

\* C8: in the Express server, GET /api/dashboard, GET /api/products and
\* GET /api/reports return to a caller only data derived from the records of
\* that caller's owner scope, never data uploaded by a different owner.
C8_ServerReadsOwnerScoped ==
    srvResp.status = 200 =>
        /\ srvResp.route = "GET /api/reports" =>
              \A i \in 1..Len(srvResp.reports) :
                  srvResp.reports[i].uploaded_by = srvResp.caller
        /\ srvResp.route = "GET /api/dashboard" =>
              \/ /\ srvResp.totals = SrvTotals(SrvRows(SrvOrderById(SrvOwn)))
                 /\ srvResp.platforms = SrvPlatformStats(SrvRows(SrvOrderById(SrvOwn)))
                 /\ srvResp.summary = NoPlatformData
              \/ /\ srvResp.totals = SrvNoTotals
                 /\ srvResp.platforms = <<>>
                 /\ srvResp.summary = SrvSummary(SrvOwn)
        /\ srvResp.route = "GET /api/products" =>
              srvResp.products = SrvProducts(SrvRows(SrvOrderById(SrvOwn)), srvSettings)

\* a caller reads the reports and all of them are the caller's own
C8_Witness ==
    /\ srvResp.route = "GET /api/reports"
    /\ srvResp.status = 200
    /\ srvResp.reports # <<>>
    /\ \A i \in 1..Len(srvResp.reports) : srvResp.reports[i].uploaded_by = srvResp.caller

\* C11: campaign_reports changes only by the inserts of an upload: no route
\* of src/routes changes or removes a row once it is there; DELETE
\* /reports/:id removes at most the caller's upload_history row with that id
\* and leaves campaign_reports, products and every other upload_history row as
\* they were, also when no row matches.
C11_ReportsOnlyGrow ==
    [][ /\ campaign_reports \subseteq campaign_reports'
        /\ campaign_reports' # campaign_reports =>
              resp'.route = "POST /upload" /\ resp'.status = 200
        /\ resp'.route = "DELETE /reports/:id" =>
              /\ campaign_reports' = campaign_reports
              /\ products' = products
              /\ upload_history' \subseteq upload_history
              /\ Cardinality(upload_history \ upload_history') <= 1
              /\ \A h \in upload_history \ upload_history' :
                    h.id = resp'.id /\ h.user_id = resp'.caller /\ resp'.status = 200
              /\ ~(\E h \in upload_history : h.id = resp'.id /\ h.user_id = resp'.caller)
                    => upload_history' = upload_history ]_vars

\* a delete that names the upload of another user is answered and finds the row kept
C11_Witness ==
    /\ resp.route = "DELETE /reports/:id"
    /\ resp.status = 200
    /\ \E h \in upload_history : h.id = resp.id /\ h.user_id # resp.caller
    /\ campaign_reports # {}

\* C12: in the upload handlers of the Express server the staged file of an
\* upload is no longer on disk once the request has been answered: it is
\* removed after a successful insert and also when the insert reports a fault.
C12_StagedFileRemoved ==
    (srvResp.route = "POST /api/upload" /\ srvResp.answers = 1)
        => srvResp.staged \cap disk = {}

\* the staged file of an upload that was stored is gone
C12_Witness ==
    /\ srvResp.route = "POST /api/upload"
    /\ srvResp.status = 200
    /\ srvResp.staged # {}
    /\ srvResp.staged \cap disk = {}
    /\ \E r \in srvReports : r.id = srvResp.reportId

\* the role the table holds for the holder of a token, "" without one
RoleOf(auth) ==
    IF Authed(auth) /\ \E r \in user_roles : r.user_id = Sessions[TokenOf(auth)]
    THEN (CHOOSE r \in user_roles : r.user_id = Sessions[TokenOf(auth)]).role
    ELSE ""

\* the request read campaign_reports
ReadsReports(r) == \E i \in 1..Len(r.calls) : r.calls[i].table = "campaign_reports"

\* C13: in the role-aware dashboard handler a GET request with a missing or
\* invalid token is answered 401, a request with a valid token whose role is
\* not admin is answered 403, and in none of these cases is campaign_reports
\* read.
C13_ApiAuthStatuses ==
    srvResp.route = "GET api/dashboard" =>
        /\ ~Authed(srvResp.auth) => srvResp.status = 401 /\ ~ReadsReports(srvResp)
        /\ (Authed(srvResp.auth) /\ RoleOf(srvResp.auth) \notin {"", "admin"}) =>
              srvResp.status = 403 /\ ~ReadsReports(srvResp)

\* a caller whose role is not admin is answered 403 and reads no report
C13_Witness ==
    /\ srvResp.route = "GET api/dashboard"
    /\ RoleOf(srvResp.auth) = "viewer"
    /\ srvResp.status = 403
    /\ ~ReadsReports(srvResp)
    /\ srvReports # {}

\* the campaigns of one platform among those of a product
OnPlatform(campaigns, platform) == {c \in campaigns : c.platform = platform}

\* nothing was spent on a collection of campaigns
NoSpend(campaigns) == SumField(campaigns, "amount_spent") = 0

\* C14: whenever the spend of the collection a ROAS is computed over sums to
\* zero, that ROAS is exactly 0 and nothing is divided by zero: the global
\* ROAS of GET /dashboard, the ROAS of a product and of each of its platforms
\* in GET /products, and the ROAS of each platform in the Express server.
C14_ZeroSpendZeroRoas ==
    /\ (resp.route = "GET /dashboard" /\ resp.status = 200 /\ NoSpend(resp.campaigns))
          => resp.kpis.roas = 0
    /\ (resp.route = "GET /products" /\ resp.status = 200) =>
          \A i \in 1..Len(resp.products) :
              LET of == ProductCampaigns(resp.products[i], resp.campaigns)
              IN  /\ NoSpend(of) => resp.products[i].roas = 0
                  /\ \A c \in of :
                        NoSpend(OnPlatform(of, c.platform)) =>
                           /\ PlatformRoas(SumField(OnPlatform(of, c.platform), "revenue"),
                                           0).num = 0
                           /\ resp.products[i].bestPlatform # c.platform
    /\ (srvResp.route = "GET /api/dashboard" /\ srvResp.status = 200) =>
          \A k \in 1..Len(srvResp.platforms) :
              srvResp.platforms[k].spend = 0 => srvResp.platforms[k].roas.num = 0

\* revenue without spend: the dashboard of the routes and of the server answer 0
C14_Witness ==
    /\ resp.route = "GET /dashboard"
    /\ resp.status = 200
    /\ resp.campaigns # {}
    /\ NoSpend(resp.campaigns)
    /\ resp.kpis.totalRevenue > 0
    /\ resp.kpis.roas = 0
    /\ srvResp.route = "GET /api/dashboard"
    /\ \E k \in 1..Len(srvResp.platforms) :
          /\ srvResp.platforms[k].spend = 0
          /\ srvResp.platforms[k].revenue > 0
          /\ srvResp.platforms[k].roas.num = 0

\* the keys the breakdown is said to hold
BreakdownKeys == Platforms \cup {"unknown"}

\* the records the breakdown is said to put under a key
SaidUnder(campaigns, key) ==
    IF key = "unknown" THEN {c \in campaigns : c.platform \notin Platforms}
    ELSE {c \in campaigns : c.platform = key}

RoasOn(campaigns, platform) ==
    PlatformRoas(SumField(OnPlatform(campaigns, platform), "revenue"),
                 SumField(OnPlatform(campaigns, platform), "amount_spent"))

\* the fraction a is at least the fraction b
AtLeast(a, b) == a.num * b.den >= b.num * a.den

\* C16: in GET /products the bestPlatform of a product is the platform with
\* the highest ROAS among the platforms of its contributing campaign records,
\* and it is "N/A" exactly when the product has no contributing record.
C16_BestPlatformHighestRoas ==
    (resp.route = "GET /products" /\ resp.status = 200) =>
        \A i \in 1..Len(resp.products) :
            LET of == ProductCampaigns(resp.products[i], resp.campaigns)
                best == resp.products[i].bestPlatform
            IN  /\ best = "N/A" <=> of = {}
                /\ of # {} =>
                      /\ \E c \in of : c.platform = best
                      /\ \A c \in of : AtLeast(RoasOn(of, best), RoasOn(of, c.platform))

\* among two platforms of a product the one with the higher ROAS is named
C16_Witness ==
    /\ resp.route = "GET /products"
    /\ resp.status = 200
    /\ Len(resp.products) = 1
    /\ resp.products[1].bestPlatform = "facebook"
    /\ \E c \in ProductCampaigns(resp.products[1], resp.campaigns) : c.platform = "tiktok"
    /\ \A c \in ProductCampaigns(resp.products[1], resp.campaigns) :
          AtLeast(RoasOn(resp.campaigns, "facebook"), RoasOn(resp.campaigns, c.platform))

\* the columns of the export of the scenario
ScenarioColumns == {"Campaign name", "Amount spent (CAD)", "Purchases"}

\* C17: an upload through POST /upload of a CSV whose only columns are
\* Campaign name, Amount spent (CAD) and Purchases yields for each row a
\* record whose product_name is the part of the campaign name before " - ",
\* whose amount_spent is the number in the spend cell ("$12.50" gives 12.50)
\* and whose conversions is the number in the purchases cell ("3" gives 3).
C17_ScenarioRecord ==
    (resp.route = "POST /upload" /\ resp.status = 200) =>
        \A c \in resp.campaigns :
            DOMAIN c.raw_data = ScenarioColumns =>
               /\ c.product_name = Trim(BeforeDelimiter(c.raw_data["Campaign name"]))
               /\ c.raw_data["Amount spent (CAD)"] = <<"$", "1", "2", ".", "5", "0">>
                     => c.amount_spent = 12 * Scale + 50
               /\ c.raw_data["Purchases"] = <<"3">> => c.conversions = 3 * Scale

\* the record of the scenario is stored with the spend and the purchases of its row
C17_Witness ==
    /\ resp.route = "POST /upload"
    /\ resp.status = 200
    /\ \E c \in resp.campaigns :
          /\ c \in campaign_reports
          /\ DOMAIN c.raw_data = ScenarioColumns
          /\ c.campaign_name = <<"P", "X", " ", "-", " ", "S">>
          /\ c.amount_spent = 12 * Scale + 50
          /\ c.conversions = 3 * Scale

\* the history of the caller of the last request, newest first
CallerHistory == OrderByDateDesc({h \in upload_history : h.user_id = resp.caller})

\* the smaller of two numbers
Min(a, b) == IF a < b THEN a ELSE b

\* C18: GET /reports with page = p and limit = n returns at most n rows, the
\* rows at positions (p-1)*n to p*n-1 of the caller's filtered history, newest
\* first, with pagination.total the number of filtered rows and totalPages =
\* ceil(total / n). The queries carry no filter here: the filtered history is
\* the caller's history.
C18_PageOfHistory ==
    (resp.route = "GET /reports" /\ resp.status = 200) =>
        LET p == resp.pagination.page
            n == resp.pagination.limit
            total == Len(CallerHistory)
        IN  /\ Len(resp.uploads) <= n
            /\ resp.uploads = SubSeq(CallerHistory, (p - 1) * n + 1, Min(p * n, total))
            /\ resp.pagination.total = total
            /\ resp.pagination.totalPages * n >= total
            /\ (resp.pagination.totalPages - 1) * n < total \/ total = 0

\* the first page of two rows out of a longer history
C18_Witness ==
    /\ resp.route = "GET /reports"
    /\ resp.status = 200
    /\ resp.pagination.page = 1
    /\ resp.pagination.limit = 2
    /\ Len(CallerHistory) >= 3
    /\ resp.uploads = SubSeq(CallerHistory, 1, 2)
    /\ resp.pagination.totalPages = 2

\* the request in progress has ended and was answered once
Terminal == pending.step \in {"Recorded", "Failed"} /\ pending.answers = 1

\* C19: every upload request that arrives, at the router of src/routes or at
\* the Express server, ends Recorded or Failed having received exactly one
\* response; none is answered twice and none stays unanswered
C19_EveryUploadAnswered ==
    /\ [](pending.answers <= 1)
    /\ [](pending.step \in {"Recorded", "Failed"} => pending.answers = 1)
    /\ (pending.step = "Received") ~> Terminal

\* an upload of src/routes whose history insert failed ends Recorded and is
\* answered once, with 200
C19_Witness ==
    /\ pending.handler = "routes" /\ pending.f.history
    /\ Terminal /\ pending.step = "Recorded"
    /\ resp.status = 200 /\ resp = pending.out.reply

\* the number a plain decimal numeral denotes, in hundredths
Denotes(text) == parseFloat(text).val

\* the row is keyed by the names of the stored record and no cell is empty
CanonicalRow(row) ==
    /\ DOMAIN row = Range(CanonicalFields)
    /\ \A h \in DOMAIN row : row[h] # <<>>

\* C20: a record stored by the upload from a raw row keyed by campaign_name,
\* product_name, amount_spent, revenue, conversions, clicks and impressions,
\* no cell empty, carries in each of these fields the value of the cell of
\* the same name, the numeric fields as the number the cell denotes.
C20_CanonicalRoundTrip ==
    \A c \in campaign_reports :
        CanonicalRow(c.raw_data) =>
            /\ c.campaign_name = c.raw_data["campaign_name"]
            /\ c.product_name = c.raw_data["product_name"]
            /\ c.amount_spent = Denotes(c.raw_data["amount_spent"])
            /\ c.revenue = Denotes(c.raw_data["revenue"])
            /\ c.conversions = Denotes(c.raw_data["conversions"])
            /\ c.clicks = Denotes(c.raw_data["clicks"])
            /\ c.impressions = Denotes(c.raw_data["impressions"])

\* a row keyed by the names of the record is stored with its two texts
C20_Witness ==
    \E c \in campaign_reports :
        /\ CanonicalRow(c.raw_data)
        /\ pending.step = "Recorded" /\ resp.status = 200 /\ c \in resp.campaigns
        /\ c.raw_data["amount_spent"] = <<"1", "2", ".", "5", "0">>
        /\ c.campaign_name = c.raw_data["campaign_name"]
        /\ c.product_name = c.raw_data["product_name"]

\* the text is a decimal numeral: an optional minus sign, then digits with
\* at most one point among them and at least one digit
ValidNumeral(text) ==
    LET body == IF text # <<>> /\ text[1] = "-" THEN Tail(text) ELSE text
    IN  /\ \A i \in 1..Len(body) : body[i] \in Digits \cup {"."}
        /\ Cardinality({i \in 1..Len(body) : body[i] = "."}) <= 1
        /\ \E i \in 1..Len(body) : body[i] \in Digits

\* the record stored from a row whose only column is Spend
SpendRecord(c) == DOMAIN c.raw_data = {"Spend"}

\* C21: parseNumber always returns a number, and returns exactly 0 whenever
\* the cell, stripped of every character that is not a digit, a point or a
\* minus sign, is not a valid number: the empty text, text without a digit,
\* text with more than one point.
C21_InvalidNumberIsZero ==
    \A c \in campaign_reports :
        SpendRecord(c) =>
            /\ c.amount_spent \in Int
            /\ ~ValidNumeral(Cleaned(c.raw_data["Spend"])) => c.amount_spent = 0

\* a cell without a digit is stored as 0, and the upload is answered with 200
C21_Witness ==
    \E c \in campaign_reports :
        /\ SpendRecord(c)
        /\ c.raw_data["Spend"] = <<"$", "-", ".">>
        /\ c.amount_spent = 0
        /\ pending.step = "Recorded" /\ resp.status = 200 /\ c \in resp.campaigns

====
